---- MODULE Spec2Model ----
(***************************************************************************)
(* Verification model of the display-report generator (DCnRG_V2).          *)
(*                                                                         *)
(* Part 1: src/src/report.py                                               *)
(*   generate_comparison_report       specification Spec                   *)
(*   analyze_json_files_for_min_fail  specification SpecMinFail            *)
(*   calculate_full_report            specification SpecAgg                *)
(* Part 2: src/main.py, the orchestrator       specification SpecMain      *)
(* Part 3: src/create_manifest.py, the manifest tool                       *)
(*                                             specification SpecUpload    *)
(* Part 4: src/build_and_upload.py             specification SpecBuild     *)
(* Part 5: src/src/helpers.py and calculate.py                             *)
(*   create_html_report               specification SpecHtml               *)
(*   archive_specific_files           specification SpecArchive            *)
(*   _get_cell_status, _should_display_metric, brightness_uniformity       *)
(*                                    specification SpecCall               *)
(* Part 6: src/create_manifest.py, upload_file and ensure_parent_exists    *)
(*                                             specification SpecMkdir     *)
(*                                                                         *)
(* Numbers are integers (fixed-point readings of the measured floats).     *)
(* A JSON/YAML scalar is a record [t, v]: t = "none" (null or absent key), *)
(* "str" (a value that is not a number) or "num" (the number v); where the *)
(* code tells them apart, "absent" is a missing key and "nan" a NaN float. *)
(***************************************************************************)
EXTENDS Integers, Sequences, FiniteSets, TLC

VARIABLES
    pc,                 \* position of the operation under study
    json_data,          \* generate_comparison_report: load_json_file(json_data_file)
    yaml_data,          \* load_yaml_file(yaml_data_file) / yaml.safe_load(...)
    is_tv_flag,         \* main.py: the TV flag of the device group
    writable,           \* whether open(output, "w") succeeds
    output_json_file,   \* content of the comparison output file
    ret,                \* value returned by the operation
    expected_values,    \* min-fail audit: outcome of loading main_tests
    device_reports,     \* the device report files matched by glob, in glob order
    min_fail_file,      \* content of the min-fail output file
    full_report_file,   \* content of the aggregated report file
    data_files,         \* main.py: the files of data/, in os.listdir order
    test,               \* main.py: Task.test.type of config/main.yaml
    device_groups,      \* main.py: groups in insertion order, each [name, file_list]
    current_group,      \* main.py: position of the group loop (line 84)
    current_file,       \* main.py: position of the file loops (lines 65, 105)
    device_reports_list,\* main.py: reports of the current group (files that gave one)
    step_log,           \* the report steps run for the current group, with their outcome
    group_results,      \* per finished group: was it archived, did every step do its work
    removed_files,      \* files of data/, test_reports/, results/ deleted by the run
    exit_code,          \* exit status of the process, "running" until it ends
    args,               \* create_manifest.py: the command line and what the path holds
    answer,             \* create_manifest.py main: what the prompt gave, "flag" if skipped
    upload_confirmed,   \* create_manifest.py main: upload_confirmed
    connected,          \* create_manifest.py main: outcome of the connectivity self-test
    manifest_uploaded,  \* upload_to_nextcloud: result of the manifest upload
    upload_log,         \* the uploads started so far, in order
    submitted,          \* the files handed to executor.submit, in order
    futures,            \* per file of files_to_upload: the state of its future
    collected,          \* the futures as_completed has yielded
    failed_uploads,     \* upload_to_nextcloud: failed_uploads
    build_args,         \* build_and_upload.py: the command line and what the disk holds
    stages,             \* build_and_upload.py: the stages run so far, with their outcome
    html_inputs,        \* create_html_report: what its files, template and reports hold
    html_file,          \* create_html_report: the state of output_file on disk
    files_to_archive,   \* archive_specific_files: the files of its list, in order
    zip_file,           \* archive_specific_files: the zip on disk, its entries in order
    call,               \* the helper function under study and its arguments
    server_dirs,        \* the remote server: per directory "absent", "creating", "exists"
    workers             \* per upload worker: its upload_file call and what it was answered

mainVars == <<data_files, test, device_groups, current_group, current_file,
              device_reports_list, step_log, group_results, removed_files, exit_code>>
reportVars == <<json_data, yaml_data, writable, output_json_file, ret,
                expected_values, device_reports, min_fail_file, full_report_file>>

uploadVars == <<args, answer, upload_confirmed, connected, manifest_uploaded,
                upload_log, submitted, futures, collected, failed_uploads>>

buildVars == <<build_args, stages>>
htmlVars == <<html_inputs, html_file>>
archiveVars == <<files_to_archive, zip_file>>
mkdirVars == <<server_dirs, workers>>
toolVars == <<buildVars, htmlVars, archiveVars, call, mkdirVars>>

vars == <<pc, is_tv_flag, reportVars, mainVars, uploadVars, toolVars>>

----------------------------------------------------------------------------
(* Bounds of the model *)

\* the numeric readings are the NumCount integers up to MaxVal
MaxVal == 16
NumCount == 2

----------------------------------------------------------------------------
(* Scalars *)

None == [t |-> "none", v |-> 0]
Text == [t |-> "str", v |-> 0]
Num(n) == [t |-> "num", v |-> n]

Nums == (MaxVal - NumCount + 1)..MaxVal
Vals == {None, Text} \cup {Num(n) : n \in Nums}

\* `x is None`
IsNone(x) == x.t = "none"
\* isinstance(x, (int, float))
IsNumeric(x) == x.t = "num"

----------------------------------------------------------------------------
(* Keys *)

\* report.py 349-358
coordinate_yaml_keys ==
    {"Red_x", "Red_y", "Green_x", "Green_y", "Blue_x", "Blue_y", "White_x", "White_y"}

\* the non-coordinate metrics of an expected-value specification
general_yaml_keys ==
    {"Brightness", "Brightness_uniformity", "Cg_rgb_area", "Cg_ntsc_area",
     "Cg_rgb", "Cg_ntsc", "Contrast", "Temperature", "Delta_e"}

YamlKeys == general_yaml_keys \cup coordinate_yaml_keys

\* report.py 361-371: json_key_mapping.get(yaml_key, yaml_key)
json_key_mapping(yaml_key) ==
    CASE yaml_key = "Brightness_uniformity" -> "BrightnessUniformity"
      [] yaml_key = "Cg_rgb_area" -> "CgByAreaRgb"
      [] yaml_key = "Cg_ntsc_area" -> "CgByAreaNtsc"
      [] yaml_key = "Cg_rgb" -> "CgRgb"
      [] yaml_key = "Cg_ntsc" -> "CgNtsc"
      [] yaml_key = "Delta_e" -> "DeltaE"
      [] yaml_key = "White_x" -> "Center_x"
      [] yaml_key = "White_y" -> "Center_y"
      [] OTHER -> yaml_key

\* report.py 33-44: the keys of Results written by json_report
ResultKeys ==
    {"Brightness", "BrightnessUniformity", "CgByAreaRgb", "CgByAreaNtsc", "CgRgb",
     "CgNtsc", "Contrast", "Temperature", "DeltaE"}

\* parse.py 64: the keys of Results.Coordinates
CoordinateKeys ==
    {"Red_x", "Red_y", "Green_x", "Green_y", "Blue_x", "Blue_y", "Center_x", "Center_y"}

----------------------------------------------------------------------------
(* Data of generate_comparison_report *)

\* One entry of main_tests. kind: "nondict" (the value is not a mapping),
\* "dict" (min/typ/max, an absent bound is None).
ExpNonDict == [kind |-> "nondict", min |-> None, typ |-> None, max |-> None]
ExpDict(mn, ty, mx) == [kind |-> "dict", min |-> mn, typ |-> ty, max |-> mx]

\* One stat block of the aggregated Results. kind: "missing" (no such key, or
\* null), "raw" (present, not a mapping), "dict" (avg/min/max).
ActMissing == [kind |-> "missing", avg |-> None, min |-> None, max |-> None]
ActRaw == [kind |-> "raw", avg |-> None, min |-> None, max |-> None]
ActDict(av, mn, mx) == [kind |-> "dict", avg |-> av, min |-> mn, max |-> mx]

\* A verdict: what report_item.update(...) sets
Verdict(st, why) == [status |-> st, reason |-> why]

\* CoordinateVerdict that also applies the general rule `avg < typ => FAIL`
CoordinateVerdictWithTyp(act, exp) ==
    IF ~ \A x \in {act.min, act.max, exp.min, exp.max} : IsNumeric(x)
      THEN Verdict("N/A", "missing or non-numeric")
    ELSE IF IsNumeric(act.avg) /\ IsNumeric(exp.typ) /\ act.avg.v < exp.typ.v
      THEN Verdict("FAIL", "Actual avg < Expected typ")
    ELSE IF act.min.v < exp.min.v \/ act.max.v > exp.max.v
      THEN Verdict("FAIL", "out of bounds")
    ELSE Verdict("PASS", "All coordinate checks passed.")

\* report.py 442-505: the coordinate branch of the per-key loop
CoordinateVerdict(act, exp) ==
    LET actual_min == act.min
        actual_max == act.max
        expected_min == exp.min
        expected_max == exp.max
    IN  IF IsNone(actual_min)
          THEN Verdict("N/A", "Actual 'min' value missing in JSON for coordinate test.")
        ELSE IF IsNone(actual_max)
          THEN Verdict("N/A", "Actual 'max' value missing in JSON for coordinate test.")
        ELSE IF IsNone(expected_min)
          THEN Verdict("N/A", "Expected 'min' value missing in YAML for coordinate test.")
        ELSE IF IsNone(expected_max)
          THEN Verdict("N/A", "Expected 'max' value missing in YAML for coordinate test.")
        ELSE IF ~ \A x \in {actual_min, actual_max, expected_min, expected_max} :
                    IsNumeric(x)
          THEN Verdict("N/A", "Non-numeric data encountered for coordinate comparison.")
        ELSE IF actual_min.v < expected_min.v
          THEN Verdict("FAIL", "Actual min < Expected min")
        ELSE IF actual_max.v > expected_max.v
          THEN Verdict("FAIL", "Actual max > Expected max")
        ELSE Verdict("PASS", "All coordinate checks passed.")

\* TemperatureVerdict that passes only above typ
TemperatureVerdictAboveTyp(act, exp) ==
    IF IsNumeric(act.max) /\ IsNumeric(exp.max) /\ act.max.v > exp.max.v
      THEN Verdict("FAIL", "Actual max > Expected max for Temperature")
    ELSE IF act.avg.v > exp.typ.v
      THEN Verdict("PASS", "Actual avg > Expected typ")
    ELSE Verdict("ERROR", "Temperature test: max check could not be performed or logical error occurred.")

\* report.py 565-593: the Temperature branch, entered after both FAIL rules
TemperatureVerdict(act, exp) ==
    LET actual_avg == act.avg
        expected_typ == exp.typ
        actual_max_val == act.max
        expected_max_thresh == exp.max
    IN  IF /\ ~IsNone(actual_max_val) /\ ~IsNone(expected_max_thresh)
           /\ IsNumeric(actual_max_val) /\ IsNumeric(expected_max_thresh)
           /\ actual_max_val.v > expected_max_thresh.v
          THEN Verdict("FAIL", "Actual max > Expected max for Temperature")
        ELSE IF actual_avg.v >= expected_typ.v
          THEN Verdict("PASS", "Actual avg >= Expected typ")
        ELSE Verdict("ERROR", "Temperature test: max check could not be performed or logical error occurred.")

\* GeneralVerdict without the rule `actual min < expected min => FAIL`
GeneralVerdictNoMinRule(yaml_key, act, exp) ==
    IF ~ \A x \in {act.avg, act.min, exp.typ, exp.min} : IsNumeric(x)
      THEN Verdict("N/A", "missing or non-numeric")
    ELSE IF act.avg.v < exp.typ.v
      THEN Verdict("FAIL", "Actual avg < Expected typ")
    ELSE IF yaml_key = "Temperature"
      THEN TemperatureVerdict(act, exp)
    ELSE Verdict("PASS", "Actual avg >= Expected typ")

\* report.py 506-617: the non-coordinate branch of the per-key loop
GeneralVerdict(yaml_key, act, exp) ==
    LET actual_avg == act.avg
        actual_min_val == act.min
        expected_typ == exp.typ
        expected_min_thresh == exp.min
    IN  IF IsNone(actual_avg)
          THEN Verdict("N/A", "Actual 'avg' value missing in JSON.")
        ELSE IF IsNone(actual_min_val)
          THEN Verdict("N/A", "Actual 'min' value missing in JSON.")
        ELSE IF IsNone(expected_typ)
          THEN Verdict("N/A", "Expected 'typ' value missing in YAML.")
        ELSE IF IsNone(expected_min_thresh)
          THEN Verdict("N/A", "Expected 'min' threshold missing in YAML.")
        ELSE IF ~ \A x \in {actual_avg, actual_min_val, expected_typ, expected_min_thresh} :
                    IsNumeric(x)
          THEN Verdict("N/A", "Non-numeric data encountered for general test comparison.")
        ELSE IF actual_avg.v < expected_typ.v
          THEN Verdict("FAIL", "Actual avg < Expected typ")
        ELSE IF actual_min_val.v < expected_min_thresh.v
          THEN Verdict("FAIL", "Actual min < Expected min threshold")
        ELSE IF yaml_key = "Temperature"
          THEN TemperatureVerdict(act, exp)
        ELSE IF actual_avg.v >= expected_typ.v
          THEN Verdict("PASS", "Actual avg >= Expected typ")
        ELSE Verdict("ERROR", "Logical error or unhandled case in non-coordinate test evaluation.")

\* report.py 324-331: json_data.get("Results", {}), emptied when not a mapping
ResultsRoot(jd) ==
    IF jd.results_is_dict
      THEN [top |-> jd.top, coords |-> jd.coords]
      ELSE [top |-> <<>>, coords |-> [kind |-> "missing", items |-> <<>>]]

\* report.py 394-411: actual_data_dict_for_test
ActualData(yaml_key, json_results_root) ==
    LET json_lookup_key == json_key_mapping(yaml_key)
    IN  IF yaml_key \in coordinate_yaml_keys
          THEN \* .get("Coordinates", {}): a missing key reads as an empty mapping,
               \* a value that is no mapping leaves the data None
               IF /\ json_results_root.coords.kind = "dict"
                  /\ json_lookup_key \in DOMAIN json_results_root.coords.items
                 THEN json_results_root.coords.items[json_lookup_key]
                 ELSE ActMissing
          ELSE IF json_lookup_key \in DOMAIN json_results_root.top
                 THEN json_results_root.top[json_lookup_key]
                 ELSE ActMissing

\* report.py 375-619: the report_item built for one key of main_tests
ReportItem(yaml_key, expected_values_dict, json_results_root) ==
    LET act == ActualData(yaml_key, json_results_root)
        item(verdict, actual_values) ==
            [status |-> verdict.status, reason |-> verdict.reason,
             actual_values |-> actual_values,
             expected_values |-> expected_values_dict]
    IN  IF expected_values_dict.kind # "dict"
          THEN item(Verdict("N/A", "Expected values in YAML is not a dictionary."), "None")
        ELSE IF act.kind = "missing"
          THEN item(Verdict("N/A", "is null or missing in JSON."), "None")
        ELSE IF act.kind = "raw"
          THEN item(Verdict("N/A", "is not a dictionary. Cannot process rules."),
                    "raw_value_found")
        ELSE IF yaml_key \in coordinate_yaml_keys
          THEN item(CoordinateVerdict(act, expected_values_dict), "copy")
        ELSE item(GeneralVerdict(yaml_key, act, expected_values_dict), "copy")

\* FullReport that also reports the top-level keys of the aggregated Results
FullReportOfAllKeys(main_tests, json_results_root) ==
    [yaml_key \in DOMAIN main_tests \cup DOMAIN json_results_root.top |->
        IF yaml_key \in DOMAIN main_tests
          THEN ReportItem(yaml_key, main_tests[yaml_key], json_results_root)
          ELSE [status |-> "PASS", reason |-> "not in main_tests",
                actual_values |-> "copy", expected_values |-> ExpNonDict]]

\* report.py 373-619: full_report, one item per key of main_tests
FullReport(main_tests, json_results_root) ==
    [yaml_key \in DOMAIN main_tests |->
        ReportItem(yaml_key, main_tests[yaml_key], json_results_root)]

\* content of the output file
Unwritten == [kind |-> "unwritten", keys |-> {}, report |-> <<>>]
ErrorReport(ks) == [kind |-> "error", keys |-> ks, report |-> <<>>]
WrittenReport(full_report) == [kind |-> "report", keys |-> {}, report |-> full_report]

\* report.py 300-647: generate_comparison_report(json_data_file, yaml_data_file,
\* output_json_file); every path ends in a bare return or falls off the end
GenerateComparisonReport ==
    /\ pc = "compare"
    /\ pc' = "compared"
    /\ ret' = "None"
    /\ output_json_file' =
         IF json_data.kind = "none" \/ yaml_data.kind = "none"
           THEN IF writable THEN ErrorReport({"error", "details"}) ELSE output_json_file
         ELSE IF ~yaml_data.main_tests_is_dict
           THEN IF writable THEN ErrorReport({"error"}) ELSE output_json_file
         ELSE IF writable
           THEN WrittenReport(FullReport(yaml_data.main_tests, ResultsRoot(json_data)))
           ELSE output_json_file
    /\ UNCHANGED <<json_data, yaml_data, is_tv_flag, writable, expected_values,
                   device_reports, min_fail_file, full_report_file, mainVars,
                   uploadVars, toolVars>>

----------------------------------------------------------------------------
(* Inputs of generate_comparison_report *)

ExpBlocks == {ExpDict(mn, ty, mx) : mn \in Vals, ty \in Vals, mx \in Vals}
ActBlocks == {ActDict(av, mn, mx) : av \in Vals, mn \in Vals, mx \in Vals}

\* a key of the aggregated Results that no expected-value specification names
\* (tests/test_report.py 53)
ExtraResultKey == "ArrayData"
JsonTopKeys == ResultKeys \cup {ExtraResultKey}

\* yaml_data: main_tests is a function from the keys present to their entries
YamlLoaded(main_tests) ==
    [kind |-> "dict", main_tests_is_dict |-> TRUE, main_tests |-> main_tests]
YamlBadMainTests ==
    [kind |-> "dict", main_tests_is_dict |-> FALSE, main_tests |-> <<>>]
YamlNone ==
    [kind |-> "none", main_tests_is_dict |-> FALSE, main_tests |-> <<>>]

\* json_data: `blocks` is a function from the lookup keys present (top-level
\* keys of Results, keys of Results.Coordinates) to their stat blocks
JsonLoaded(results_is_dict, coords_kind, blocks) ==
    [kind |-> "dict", results_is_dict |-> results_is_dict,
     top |-> [k \in DOMAIN blocks \cap JsonTopKeys |-> blocks[k]],
     coords |-> [kind |-> coords_kind,
                 items |-> [k \in DOMAIN blocks \cap CoordinateKeys |-> blocks[k]]]]
JsonNone ==
    [kind |-> "none", results_is_dict |-> FALSE, top |-> <<>>,
     coords |-> [kind |-> "missing", items |-> <<>>]]

\* the keys of the test fixture (tests/conftest.py 92-97)
FixtureKeys == {"Brightness", "Temperature", "Red_x", "White_x"}
FixtureExp == ExpDict(Num(MaxVal - 1), Num(MaxVal), Num(MaxVal))
FixtureActs ==
    {ActMissing, ActDict(Num(MaxVal), Num(MaxVal), Num(MaxVal)),
     ActDict(Num(MaxVal - 1), Num(MaxVal - 1), Num(MaxVal - 1))}

\* no device report and no audit or aggregation output yet
\* the manifest tool is not running
InitNoUpload ==
    /\ args = [mode |-> "zip", upload_now |-> FALSE, source_found |-> FALSE, files |-> 0]
    /\ answer = "unset"
    /\ upload_confirmed = FALSE
    /\ connected = "unset"
    /\ manifest_uploaded = "unset"
    /\ upload_log = <<>>
    /\ submitted = <<>>
    /\ futures = <<>>
    /\ collected = {}
    /\ failed_uploads = {}

\* the orchestrator is not running
InitNoMain ==
    /\ InitNoUpload
    /\ data_files = <<>>
    /\ test = "FullTest"
    /\ device_groups = <<>>
    /\ current_group = 0
    /\ current_file = 0
    /\ device_reports_list = <<>>
    /\ step_log = {}
    /\ group_results = {}
    /\ removed_files = {}
    /\ exit_code = "running"

\* build_and_upload.py is not running
InitNoBuild ==
    /\ build_args = [mode |-> "zip", path |-> "dist/App", upload |-> FALSE,
                     target_config_exists |-> FALSE]
    /\ stages = <<>>

\* create_html_report is not running
InitNoHtml ==
    /\ html_inputs = [input_file |-> "mapping", min_fail_file |-> "list",
                      expected_yaml |-> "mapping", template |-> "ok",
                      device_reports |-> "none", output_file |-> "ok"]
    /\ html_file = "absent"

\* archive_specific_files is not running
InitNoArchive ==
    /\ files_to_archive = <<>>
    /\ zip_file = [on_disk |-> FALSE, entries |-> <<>>]

\* no helper function is under study
InitNoCall == call = [fn |-> "none"]

\* no upload worker is running
InitNoMkdir ==
    /\ server_dirs = <<>>
    /\ workers = <<>>

\* none of the stand-alone tools and helpers is running
InitNoTools ==
    /\ InitNoBuild
    /\ InitNoHtml
    /\ InitNoArchive
    /\ InitNoCall
    /\ InitNoMkdir

InitNoDeviceReports ==
    /\ expected_values = [kind |-> "unset", items |-> <<>>]
    /\ device_reports = <<>>
    /\ min_fail_file = [written |-> FALSE, entries |-> <<>>]
    /\ full_report_file = [written |-> FALSE, SerialNumber |-> <<>>, Results |-> <<>>]

\* one key of main_tests, every shape of its expected and actual block
InitOneKey ==
    \E k \in YamlKeys, exp \in ExpBlocks \cup {ExpNonDict},
       act \in ActBlocks \cup {ActRaw, ActMissing} :
        /\ yaml_data = YamlLoaded(k :> exp)
        /\ json_data = JsonLoaded(TRUE, "dict", json_key_mapping(k) :> act)
        /\ writable = TRUE

\* several keys, keys of Results outside the specification, a Results or a
\* Coordinates that is no mapping, an output file that cannot be written
InitManyKeys ==
    \E ks \in SUBSET FixtureKeys, acts \in [FixtureKeys -> FixtureActs],
       extra \in BOOLEAN, results_is_dict \in BOOLEAN,
       coords_kind \in {"missing", "nondict", "dict"}, w \in BOOLEAN :
        /\ yaml_data = YamlLoaded([k \in ks |-> FixtureExp])
        /\ json_data =
             JsonLoaded(results_is_dict, coords_kind,
                        [j \in {json_key_mapping(k) : k \in FixtureKeys}
                               \cup (IF extra THEN {ExtraResultKey} ELSE {}) |->
                           IF j = ExtraResultKey THEN ActRaw
                           ELSE acts[CHOOSE k \in FixtureKeys : json_key_mapping(k) = j]])
        /\ writable = w

\* an input file that is missing or cannot be parsed, a main_tests that is
\* no mapping
InitLoadFailure ==
    \E jd \in {JsonNone, JsonLoaded(TRUE, "dict", "Brightness" :> ActDict(Num(MaxVal), Num(MaxVal), Num(MaxVal)))},
       yd \in {YamlNone, YamlBadMainTests, YamlLoaded("Brightness" :> FixtureExp)},
       w \in BOOLEAN :
        /\ jd.kind = "none" \/ yd.kind = "none" \/ ~yd.main_tests_is_dict
        /\ json_data = jd
        /\ yaml_data = yd
        /\ writable = w

Init ==
    /\ pc = "compare"
    /\ InitNoTools
    /\ ret = "unset"
    /\ output_json_file = Unwritten
    /\ is_tv_flag \in BOOLEAN
    /\ InitNoMain
    /\ InitNoDeviceReports
    /\ InitOneKey \/ InitManyKeys \/ InitLoadFailure

Next == GenerateComparisonReport

Spec == Init /\ [][Next]_vars

----------------------------------------------------------------------------
(* Device reports: the files json_report writes, read back by the min-fail  *)
(* audit and by the aggregator                                             *)

\* a key that a mapping does not hold (expected["min"] raises KeyError)
Absent == [t |-> "absent", v |-> 0]
\* a float that is NaN or infinite
NaN == [t |-> "nan", v |-> 0]

\* A JSON value of Results: a scalar, a mapping of scalars, a list of scalars
Scalar(x) == [kind |-> "scalar", val |-> x, items |-> <<>>, elems |-> <<>>]
Mapping(items) == [kind |-> "dict", val |-> None, items |-> items, elems |-> <<>>]
List(elems) == [kind |-> "list", val |-> None, items |-> <<>>, elems |-> elems]

\* report.py 30-45: one device report file. readable: the file opens and
\* decodes; has_results: the key Results is present; Results: its value.
\* SerialNumber NoSerial: the key is missing
NoSerial == 0
DeviceReport(sn, readable, has_results, Results) ==
    [SerialNumber |-> sn, readable |-> readable, has_results |-> has_results,
     Results |-> Results]
UnreadableReport == DeviceReport(NoSerial, FALSE, FALSE, Scalar(None))

\* report.py 33-44: Results as json_report writes it. vals gives the metrics
\* by their specification key; every other top-level metric is null.
\* coords_kind: Coordinates is a mapping ("dict"), null ("none") or missing
DeviceResults(vals, coords_kind) ==
    LET ValueAt(j) == vals[CHOOSE k \in DOMAIN vals : json_key_mapping(k) = j]
        Held == {json_key_mapping(k) : k \in DOMAIN vals}
        Coordinates == Mapping([c \in Held \cap CoordinateKeys |-> ValueAt(c)])
        TopKeys == ResultKeys \cup (IF coords_kind = "absent" THEN {} ELSE {"Coordinates"})
    IN  Mapping([j \in TopKeys |->
                   IF j = "Coordinates"
                     THEN IF coords_kind = "dict" THEN Coordinates ELSE Scalar(None)
                   ELSE IF j \in Held THEN ValueAt(j) ELSE Scalar(None)])

----------------------------------------------------------------------------
(* analyze_json_files_for_min_fail *)

\* report.py 697-706: the keys looked up inside Results.Coordinates
min_fail_coordinate_keys ==
    {"Red_x", "Red_y", "Green_x", "Green_y", "Blue_x", "Blue_y", "Center_x", "Center_y"}

\* the outcome of one step of the per-key loop: entries appended, and whether
\* an exception left the loop (caught at report.py 739)
KeyOutcome(raised, entries) == [raised |-> raised, entries |-> entries]

\* report.py 716-733: the comparison of min_value with expected["min"].
\* min_value is a JSON value (Scalar, Mapping or List).
CompareWithExpectedMin(serial_number, key, min_value, expected) ==
    IF min_value.kind = "scalar" /\ IsNone(min_value.val)
      THEN KeyOutcome(FALSE, <<>>)
    ELSE IF min_value.kind # "scalar"
      THEN KeyOutcome(FALSE, <<>>)        \* float(dict): TypeError, continue
    ELSE IF min_value.val.t = "str"
      THEN KeyOutcome(FALSE, <<>>)        \* float("text"): ValueError, continue
    ELSE IF expected.kind # "dict"
      THEN KeyOutcome(FALSE, <<>>)        \* expected["min"]: TypeError, continue
    ELSE IF expected.min = Absent
      THEN KeyOutcome(TRUE, <<>>)         \* expected["min"]: KeyError, not caught here
    ELSE IF ~IsNumeric(expected.min)
      THEN KeyOutcome(FALSE, <<>>)        \* float < None: TypeError, continue
    ELSE IF min_value.val.t = "num" /\ min_value.val.v < expected.min.v
      THEN KeyOutcome(FALSE, <<[sn |-> serial_number, key |-> key,
                                min_value |-> min_value.val.v,
                                expected_min |-> expected.min.v]>>)
    ELSE KeyOutcome(FALSE, <<>>)

\* report.py 687-733: one iteration of `for key, expected in expected_values.items()`
AuditKey(serial_number, results, key, expected) ==
    IF key \in DOMAIN results.items
      THEN LET value == results.items[key]
           IN  IF value.kind = "dict" /\ "min" \in DOMAIN value.items
                 THEN CompareWithExpectedMin(serial_number, key, value.items["min"], expected)
                 ELSE CompareWithExpectedMin(serial_number, key, value, expected)
    ELSE IF key \in min_fail_coordinate_keys
      THEN IF "Coordinates" \in DOMAIN results.items
             THEN LET coordinates == results.items["Coordinates"]
                  IN  IF coordinates.kind # "dict"
                        THEN KeyOutcome(TRUE, <<>>)   \* None[key]: TypeError, not caught here
                      ELSE IF key \in DOMAIN coordinates.items
                        THEN CompareWithExpectedMin(serial_number, key,
                                                    coordinates.items[key], expected)
                      ELSE KeyOutcome(FALSE, <<>>)    \* KeyError: pass
             ELSE KeyOutcome(FALSE, <<>>)
    ELSE KeyOutcome(FALSE, <<>>)                      \* continue

\* report.py 687-740: the per-key loop from item i on; an exception that the
\* inner handlers do not catch ends the loop for this file
RECURSIVE AuditKeysFrom(_, _, _, _)
AuditKeysFrom(serial_number, results, items, i) ==
    IF i > Len(items) THEN <<>>
    ELSE LET step == AuditKey(serial_number, results, items[i].key, items[i].expected)
         IN  IF step.raised THEN step.entries
             ELSE step.entries \o AuditKeysFrom(serial_number, results, items, i + 1)

\* report.py 680-740: the entries one device report file adds
AuditFile(data, items) ==
    IF ~data.readable THEN <<>>                        \* JSONDecodeError
    ELSE LET results == IF data.has_results THEN data.Results ELSE Mapping(<<>>)
         IN  IF results.kind # "dict" THEN <<>>        \* `key in None`: TypeError
             ELSE AuditKeysFrom(data.SerialNumber, results, items, 1)

\* report.py 675-740: output_data over the files from file n on
RECURSIVE AuditFilesFrom(_, _, _)
AuditFilesFrom(reports, items, n) ==
    IF n > Len(reports) THEN <<>>
    ELSE AuditFile(reports[n], items) \o AuditFilesFrom(reports, items, n + 1)

\* report.py 650-749: analyze_json_files_for_min_fail(folder_path,
\* expected_result_path, output_path, device_name)
AnalyzeJsonFilesForMinFail ==
    /\ pc = "audit"
    /\ pc' = "audited"
    /\ ret' = IF expected_values.kind = "TypeError" THEN "raised" ELSE "None"
    /\ min_fail_file' =
         IF expected_values.kind \notin {"loaded", "not_a_mapping"} THEN min_fail_file
         ELSE IF ~writable THEN min_fail_file
         ELSE IF expected_values.kind = "not_a_mapping"
           THEN [written |-> TRUE, entries |-> <<>>]   \* .items(): AttributeError per file
         ELSE [written |-> TRUE,
               entries |-> AuditFilesFrom(device_reports, expected_values.items, 1)]
    /\ UNCHANGED <<json_data, yaml_data, is_tv_flag, writable, output_json_file,
                   expected_values, device_reports, full_report_file, mainVars,
                   uploadVars, toolVars>>

\* report.py 661-673: what loading main_tests gave. "loaded": a mapping, its
\* items in file order; "not_a_mapping": main_tests is null or a scalar;
\* "FileNotFoundError", "YAMLError", "KeyError": the handled failures;
\* "TypeError": the file is empty, expected_data["main_tests"] raises
ExpectedValues(items) == [kind |-> "loaded", items |-> items]
ExpectedValuesFailure(kind) == [kind |-> kind, items |-> <<>>]
ExpectedItem(key, expected) == [key |-> key, expected |-> expected]
LoadFailures == {"FileNotFoundError", "YAMLError", "KeyError", "TypeError", "not_a_mapping"}

MaxDevices == 2
MaxSpecKeys == 2

\* specification keys of the audited inputs: direct, mapped and coordinate ones
AuditKeys == {"Brightness", "Temperature", "Brightness_uniformity", "Red_x", "White_x"}
\* the orders in which up to n distinct keys can stand in main_tests
KeySeqs(n) ==
    {s \in UNION {[1..m -> AuditKeys] : m \in 1..n} :
       \A i, j \in DOMAIN s : i # j => s[i] # s[j]}

\* expected entries: not a mapping, without "min", min null, min numeric
ExpectedShapes ==
    {ExpNonDict, ExpDict(Absent, None, Num(MaxVal)), ExpDict(None, None, None),
     ExpDict(Num(MaxVal), None, None)}
\* values a report holds for a metric
Below == Scalar(Num(MaxVal - 1))
Meets == Scalar(Num(MaxVal))
ValueShapes ==
    {Scalar(None), Scalar(Text), Scalar(NaN), Below, Meets,
     Mapping([k \in {"min"} |-> Below]), Mapping([k \in {"avg"} |-> Below])}

InitNoComparison ==
    /\ json_data = JsonNone
    /\ yaml_data = YamlNone
    /\ is_tv_flag = FALSE
    /\ output_json_file = Unwritten

\* one report, two specification keys, every shape of entry and value
InitAuditShapes ==
    /\ writable = TRUE
    /\ \E k1 \in AuditKeys, e1 \in ExpectedShapes, e2 \in ExpectedShapes,
          coords_kind \in {"dict", "none", "absent"} :
       \E k2 \in AuditKeys \ {k1} :
         /\ expected_values = ExpectedValues(<<ExpectedItem(k1, e1), ExpectedItem(k2, e2)>>)
         /\ \E vals \in [{k1, k2} -> ValueShapes] :
              device_reports = <<DeviceReport(1, TRUE, TRUE, DeviceResults(vals, coords_kind))>>

\* several reports, several keys with a numeric minimum
InitAuditMany ==
    /\ writable \in BOOLEAN
    /\ \E keys \in KeySeqs(MaxSpecKeys), n \in 1..MaxDevices :
         /\ expected_values =
              ExpectedValues([i \in DOMAIN keys |->
                                ExpectedItem(keys[i], ExpDict(Num(MaxVal), None, None))])
         /\ \E vals \in [1..n -> [{keys[i] : i \in DOMAIN keys} -> {Below, Meets}]
                                 \cup {<<>>}] :
              device_reports =
                [d \in 1..n |->
                   IF vals[d] = <<>> THEN UnreadableReport
                   ELSE DeviceReport(d, TRUE, TRUE, DeviceResults(vals[d], "dict"))]

\* main_tests could not be loaded, or a report has no usable Results
InitAuditFailure ==
    /\ writable \in BOOLEAN
    /\ \E kind \in LoadFailures \cup {"loaded"}, has_results \in BOOLEAN, sn \in {NoSerial, 1} :
         /\ expected_values =
              IF kind = "loaded"
                THEN ExpectedValues(<<ExpectedItem("Brightness", ExpDict(Num(MaxVal), None, None))>>)
                ELSE ExpectedValuesFailure(kind)
         /\ \E r \in {Scalar(None), DeviceResults([k \in {"Brightness"} |-> Below], "dict")} :
              device_reports = <<DeviceReport(sn, TRUE, has_results, r)>>

InitMinFail ==
    /\ pc = "audit"
    /\ InitNoTools
    /\ ret = "unset"
    /\ InitNoMain
    /\ InitNoComparison
    /\ min_fail_file = [written |-> FALSE, entries |-> <<>>]
    /\ full_report_file = [written |-> FALSE, SerialNumber |-> <<>>, Results |-> <<>>]
    /\ \/ InitAuditShapes
       \/ InitAuditMany
       \/ InitAuditFailure

NextMinFail == AnalyzeJsonFilesForMinFail

SpecMinFail == InitMinFail /\ [][NextMinFail]_vars

----------------------------------------------------------------------------
(* calculate_full_report *)

\* a statistic that is null, and sum / count as Python's true division gives it
NoMean == [t |-> "none", v |-> 0, d |-> 1]
Mean(sum, count) == [t |-> "mean", v |-> sum, d |-> count]

\* report.py 183, 219, 234: stat_package with scalar or with list statistics
ScalarStat(avg, min, max) ==
    [kind |-> "scalar", avg |-> avg, min |-> min, max |-> max,
     avg_list |-> <<>>, min_list |-> <<>>, max_list |-> <<>>]
ListStat(avg_list, min_list, max_list) ==
    [kind |-> "list", avg |-> NoMean, min |-> None, max |-> None,
     avg_list |-> avg_list, min_list |-> min_list, max_list |-> max_list]

\* report.py 116-135: the file decodes and its Results is a dictionary
Usable(data) == data.readable /\ data.has_results /\ data.Results.kind = "dict"

\* report.py 138-148: the key paths process_items visits in one file
PathsOf(data) ==
    LET top == data.Results.items
    IN  {<<k>> : k \in DOMAIN top} \cup
        UNION {{<<k, c>> : c \in DOMAIN top[k].items} :
                 k \in {j \in DOMAIN top : top[j].kind = "dict"}}
HasPath(data, path) == Usable(data) /\ path \in PathsOf(data)
NodeAt(data, path) ==
    IF Len(path) = 1 THEN data.Results.items[path[1]]
    ELSE data.Results.items[path[1]].items[path[2]]

\* report.py 157-168: sanitized_list
Sanitized(elems) ==
    LET kept == SelectSeq(elems, LAMBDA x : x.t \in {"none", "num", "nan"})
    IN  [i \in DOMAIN kept |-> IF kept[i].t = "nan" THEN None ELSE kept[i]]

\* report.py 143-169: what process_items appends to aggregated_data[flat_key]
Collected(value) ==
    IF value.kind = "dict"
      THEN IF DOMAIN value.items = {} THEN <<Mapping(<<>>)>> ELSE <<>>
    ELSE IF value.kind = "list" THEN <<List(Sanitized(value.elems))>>
    ELSE IF value.val.t \in {"none", "nan"} THEN <<Scalar(None)>>
    ELSE IF value.val.t = "num" THEN <<value>>
    ELSE <<>>

\* report.py 114-171: aggregated_data[flat_key] over the files from file n on
RECURSIVE ValuesListFrom(_, _, _)
ValuesListFrom(reports, path, n) ==
    IF n > Len(reports) THEN <<>>
    ELSE (IF HasPath(reports[n], path) THEN Collected(NodeAt(reports[n], path)) ELSE <<>>)
         \o ValuesListFrom(reports, path, n + 1)

\* sum(), min(), max() of a non-empty sequence of numbers
RECURSIVE SumSeq(_)
SumSeq(xs) == IF xs = <<>> THEN 0 ELSE Head(xs) + SumSeq(Tail(xs))
MinSeq(xs) == CHOOSE x \in {xs[i] : i \in DOMAIN xs} : \A i \in DOMAIN xs : x <= xs[i]
MaxSeq(xs) == CHOOSE x \in {xs[i] : i \in DOMAIN xs} : \A i \in DOMAIN xs : x >= xs[i]

\* the numbers among collected scalars
NumericValues(values) ==
    LET kept == SelectSeq(values, LAMBDA x : x.kind = "scalar" /\ IsNumeric(x.val))
    IN  [i \in DOMAIN kept |-> kept[i].val.v]

ScalarStatsCountingAll(values_list_for_key) ==
    LET numeric_values == NumericValues(values_list_for_key)
    IN  IF numeric_values = <<>> THEN ScalarStat(NoMean, None, None)
        ELSE ScalarStat(Mean(SumSeq(numeric_values), Len(values_list_for_key)),
                        Num(MinSeq(numeric_values)), Num(MaxSeq(numeric_values)))

\* report.py 235-245: scalar processing
ScalarStats(values_list_for_key) ==
    LET numeric_values == NumericValues(values_list_for_key)
    IN  IF numeric_values = <<>> THEN ScalarStat(NoMean, None, None)
        ELSE ScalarStat(Mean(SumSeq(numeric_values), Len(numeric_values)),
                        Num(MinSeq(numeric_values)), Num(MaxSeq(numeric_values)))

\* report.py 195-234: element-wise statistics of list values
ListStats(values_list_for_key) ==
    LET lists == SelectSeq(values_list_for_key, LAMBDA x : x.kind = "list")
        lens == {Len(lists[n].elems) : n \in DOMAIN lists}
        max_len == CHOOSE m \in lens : \A l \in lens : m >= l
        Column(i) ==
          LET with == SelectSeq(lists, LAMBDA l : i <= Len(l.elems) /\ IsNumeric(l.elems[i]))
          IN  [n \in DOMAIN with |-> with[n].elems[i].v]
    IN  IF max_len = 0 THEN ListStat(<<>>, <<>>, <<>>)
        ELSE ListStat(
               [i \in 1..max_len |->
                  IF Column(i) = <<>> THEN NoMean
                  ELSE Mean(SumSeq(Column(i)), Len(Column(i)))],
               [i \in 1..max_len |->
                  IF Column(i) = <<>> THEN None ELSE Num(MinSeq(Column(i)))],
               [i \in 1..max_len |->
                  IF Column(i) = <<>> THEN None ELSE Num(MaxSeq(Column(i)))])

\* report.py 183-245: stat_package of a non-empty values_list_for_key
StatPackage(values_list_for_key) ==
    IF \A i \in DOMAIN values_list_for_key :
         \/ values_list_for_key[i].kind = "scalar" /\ IsNone(values_list_for_key[i].val)
         \/ values_list_for_key[i].kind = "dict"
      THEN ScalarStat(NoMean, None, None)
    ELSE IF \E i \in DOMAIN values_list_for_key : values_list_for_key[i].kind = "list"
      THEN ListStats(values_list_for_key)
    ELSE ScalarStats(values_list_for_key)

\* report.py 173-256, 52-73: final_results_data, by key path. A path whose
\* values list is empty is skipped (250-254); set_nested_value puts the
\* package of path a.b under Results[a][b].
FinalResultsData(reports) ==
    LET all_keys_paths == UNION {PathsOf(reports[n]) :
                                   n \in {m \in DOMAIN reports : Usable(reports[m])}}
        emitted == {path \in all_keys_paths : ValuesListFrom(reports, path, 1) # <<>>}
    IN  [path \in emitted |-> StatPackage(ValuesListFrom(reports, path, 1))]

\* sorted(list(set(...)))
RECURSIVE SortedSeq(_)
SortedSeq(S) ==
    IF S = {} THEN <<>>
    ELSE LET m == CHOOSE x \in S : \A y \in S : x <= y
         IN  <<m>> \o SortedSeq(S \ {m})

\* report.py 126-129, 259: the serial numbers of the files that decode
SerialNumbers(reports) ==
    SortedSeq({reports[n].SerialNumber :
                 n \in {m \in DOMAIN reports :
                          reports[m].readable /\ reports[m].SerialNumber # NoSerial}})

\* report.py 97-268: calculate_full_report(input_folder, output_file, device_name)
CalculateFullReport ==
    /\ pc = "aggregate"
    /\ pc' = "aggregated"
    /\ ret' = "None"
    /\ full_report_file' =
         IF writable
           THEN [written |-> TRUE,
                 SerialNumber |-> SerialNumbers(device_reports),
                 Results |-> FinalResultsData(device_reports)]
           ELSE full_report_file
    /\ UNCHANGED <<json_data, yaml_data, is_tv_flag, writable, output_json_file,
                   expected_values, device_reports, min_fail_file, mainVars,
                   uploadVars, toolVars>>

\* values of a scalar metric in a report: null, NaN, text, {} or a number
AggScalarShapes ==
    {Scalar(None), Scalar(NaN), Scalar(Text), Mapping(<<>>)} \cup {Scalar(Num(n)) : n \in Nums}
\* Coordinates in a report: missing, null, {} or a mapping holding Red_x
AggCoordinateShapes ==
    {Absent, Scalar(None), Mapping(<<>>), Mapping([c \in {"Red_x"} |-> Scalar(None)]),
     Mapping([c \in {"Red_x"} |-> Scalar(Num(MaxVal))])}
\* elements of a list value, and list values of up to two elements
ListElems == {None, Text, NaN} \cup {Num(n) : n \in Nums}
AggListShapes ==
    {Scalar(None), Scalar(Num(MaxVal))} \cup
    {List(e) : e \in {<<>>} \cup [1..1 -> ListElems] \cup [1..2 -> ListElems]}

\* reports holding a scalar metric and Coordinates
InitAggScalars ==
    /\ writable = TRUE
    /\ \E n \in 1..MaxDevices :
         \E b \in [1..n -> AggScalarShapes], c \in [1..n -> AggCoordinateShapes] :
           device_reports =
             [d \in 1..n |->
                DeviceReport(d, TRUE, TRUE,
                  Mapping([k \in {"Brightness"} \cup
                                 (IF c[d] = Absent THEN {} ELSE {"Coordinates"}) |->
                             IF k = "Brightness" THEN b[d] ELSE c[d]]))]

\* reports holding a list metric
InitAggLists ==
    /\ writable = TRUE
    /\ \E n \in 1..MaxDevices :
         \E a \in [1..n -> AggListShapes] :
           device_reports =
             [d \in 1..n |->
                DeviceReport(d, TRUE, TRUE, Mapping([k \in {ExtraResultKey} |-> a[d]]))]

\* files that do not decode, lack Results or SerialNumber, or share one
InitAggFiles ==
    /\ writable \in BOOLEAN
    /\ \E n \in 1..MaxDevices :
         device_reports \in
           [1..n -> {UnreadableReport} \cup
                    {DeviceReport(sn, TRUE, has_results, r) :
                       sn \in {NoSerial, 1, 2}, has_results \in BOOLEAN,
                       r \in {Scalar(None),
                              Mapping([k \in {"Brightness"} |-> Scalar(Num(MaxVal))])}}]

InitAgg ==
    /\ pc = "aggregate"
    /\ InitNoTools
    /\ ret = "unset"
    /\ InitNoMain
    /\ InitNoComparison
    /\ expected_values = [kind |-> "unset", items |-> <<>>]
    /\ min_fail_file = [written |-> FALSE, entries |-> <<>>]
    /\ full_report_file = [written |-> FALSE, SerialNumber |-> <<>>, Results |-> <<>>]
    /\ \/ InitAggScalars
       \/ InitAggLists
       \/ InitAggFiles

NextAgg == CalculateFullReport

SpecAgg == InitAgg /\ [][NextAgg]_vars

----------------------------------------------------------------------------
(* main.py: the orchestrator *)

\* A file of data/. json: the name ends with ".json". info: what
\* parse.get_device_info gives for it: "ok" (a configuration, the TV flag and a
\* serial number), "none" (the JSON cannot be loaded: (None, False, None),
\* parse.py 139-143) or "raise" (any other exception). content: what the
\* per-file step finds: "measured" (the calculations return), "no_center_T"
\* (a calculation raises, calculate.py 204-206) or "empty" (parse_one_file
\* gives None or an empty record)
DataFile(json, info, config, content) ==
    [json |-> json, info |-> info, config |-> config, content |-> content]
OtherFile == DataFile(FALSE, "none", "None", "empty")
UnloadableFile == DataFile(TRUE, "none", "None", "empty")
RaisingFile == DataFile(TRUE, "raise", "None", "empty")
DeviceConfigurations == {"Monitor", "TV"}
MeasurementFiles ==
    {DataFile(TRUE, "ok", config, content) :
       config \in DeviceConfigurations, content \in {"measured", "no_center_T", "empty"}}
DataFiles == {OtherFile, UnloadableFile, RaisingFile} \cup MeasurementFiles

\* main.py 73: device_groups[device_config].append(...) on a defaultdict(list)
AppendToGroup(groups, name, file) ==
    IF \E k \in DOMAIN groups : groups[k].name = name
      THEN [k \in DOMAIN groups |->
              IF groups[k].name = name
                THEN [groups[k] EXCEPT !.file_list = Append(@, file)]
                ELSE groups[k]]
      ELSE Append(groups, [name |-> name, file_list |-> <<file>>])

\* a call of a report step returns with its work done ("ok"), returns after
\* its own error path ("failed"), or raises
StepOutcomes == {"ok", "failed", "raise"}
Logged(step, outcome) == [group |-> current_group, step |-> step, outcome |-> outcome]

\* main.py 58, 80: exit(); the end of the script; an exception nothing catches
ExitSuccess == "0"
ExitTraceback == "1"

mainIdle == <<is_tv_flag, reportVars, uploadVars, toolVars>>

\* main.py 54-60
ListFiles ==
    /\ pc = "main"
    /\ IF data_files = <<>>
         THEN pc' = "exited" /\ exit_code' = ExitSuccess /\ current_file' = current_file
         ELSE pc' = "grouping" /\ exit_code' = exit_code /\ current_file' = 1
    /\ UNCHANGED <<data_files, test, device_groups, current_group,
                   device_reports_list, step_log, group_results, removed_files,
                   mainIdle>>

\* main.py 65-76: one iteration of `for file_name in files`
GroupFile ==
    /\ pc = "grouping"
    /\ current_file <= Len(data_files)
    /\ LET file == data_files[current_file]
       IN  /\ device_groups' =
                IF ~file.json \/ file.info = "raise" THEN device_groups
                ELSE AppendToGroup(device_groups, file.config, current_file)
           /\ is_tv_flag' =
                IF ~file.json \/ file.info = "raise" THEN is_tv_flag
                ELSE file.info = "ok" /\ file.config = "TV"
    /\ current_file' = current_file + 1
    /\ UNCHANGED <<pc, data_files, test, current_group, device_reports_list,
                   step_log, group_results, removed_files, exit_code, reportVars,
                   uploadVars, toolVars>>

\* main.py 78-85, 103
EndGrouping ==
    /\ pc = "grouping"
    /\ current_file > Len(data_files)
    /\ IF device_groups = <<>>
         THEN /\ pc' = "exited" /\ exit_code' = ExitSuccess
              /\ UNCHANGED <<current_group, current_file>>
         ELSE /\ pc' = "files" /\ exit_code' = exit_code
              /\ current_group' = 1 /\ current_file' = 1
    /\ device_reports_list' = <<>>
    /\ UNCHANGED <<data_files, test, device_groups, step_log, group_results,
                   removed_files, mainIdle>>

\* main.py 105-150: one iteration of `for file, is_tv_flag, sn in file_list`
ProcessFile ==
    /\ pc = "files"
    /\ current_file <= Len(device_groups[current_group].file_list)
    /\ LET id == device_groups[current_group].file_list[current_file]
           file == data_files[id]
           calculated == file.content # "empty" /\ test = "FullTest"
       IN  /\ is_tv_flag' = (file.info = "ok" /\ file.config = "TV")
           /\ IF calculated /\ file.content = "no_center_T"
                THEN /\ pc' = "exited" /\ exit_code' = ExitTraceback
                     /\ UNCHANGED <<current_file, device_reports_list>>
                ELSE /\ pc' = pc /\ exit_code' = exit_code
                     /\ current_file' = current_file + 1
                     /\ device_reports_list' =
                          IF calculated THEN Append(device_reports_list, id)
                          ELSE device_reports_list
    /\ UNCHANGED <<data_files, test, device_groups, current_group, step_log,
                   group_results, removed_files, reportVars, uploadVars, toolVars>>

\* main.py 191-192: the file loop of the group is over
EndFiles ==
    /\ pc = "files"
    /\ current_file > Len(device_groups[current_group].file_list)
    /\ pc' = "aggregate"
    /\ UNCHANGED <<data_files, test, device_groups, current_group, current_file,
                   device_reports_list, step_log, group_results, removed_files,
                   exit_code, mainIdle>>

\* a call of a report step whose result main.py does not look at
RunStep(step, next) ==
    /\ pc = step
    /\ \E outcome \in StepOutcomes :
         /\ step_log' = step_log \cup {Logged(step, outcome)}
         /\ IF outcome = "raise"
              THEN pc' = "exited" /\ exit_code' = ExitTraceback
              ELSE pc' = next /\ exit_code' = exit_code
    /\ UNCHANGED <<data_files, test, device_groups, current_group, current_file,
                   device_reports_list, group_results, removed_files, mainIdle>>

\* main.py 194: r.calculate_full_report(...)
Aggregate == RunStep("aggregate", "audit")
\* main.py 195: r.analyze_json_files_for_min_fail(...)
MinFailAudit == RunStep("audit", "compare")
\* main.py 196-202: r.generate_comparison_report(...)
Compare == RunStep("compare", "html")
\* main.py 205-217: h.create_html_report(...)
HtmlReport == RunStep("html", "archive")
\* main.py 220-225: h.archive_reports(...)
Archive == RunStep("archive", "cleanup")

\* the files of a group: its source files, its JSON intermediates, its HTML result
GroupFiles(g) ==
    {[folder |-> "data", group |-> g], [folder |-> "test_reports", group |-> g],
     [folder |-> "results", group |-> g]}

CleanupClearFolders(removed, g) == removed \cup GroupFiles(g)

\* main.py 226-227: the cleanup logs its title; h.clear_folders is commented out
Cleanup(removed, g) == removed

\* main.py 226-227, 84: cleanup, then the next group or the end of the script
CleanupAndNextGroup ==
    /\ pc = "cleanup"
    /\ removed_files' = Cleanup(removed_files, current_group)
    /\ IF current_group < Len(device_groups)
         THEN /\ pc' = "files" /\ exit_code' = exit_code
              /\ current_group' = current_group + 1
         ELSE /\ pc' = "exited" /\ exit_code' = ExitSuccess
              /\ current_group' = current_group
    /\ current_file' = 1
    /\ device_reports_list' = <<>>
    /\ step_log' = {}
    /\ group_results' =
         group_results \cup
           {[group |-> current_group,
             archived |-> Logged("archive", "ok") \in step_log,
             processed |-> \A entry \in step_log : entry.outcome = "ok"]}
    /\ UNCHANGED <<data_files, test, device_groups, mainIdle>>

MaxFiles == 2

InitMain ==
    /\ pc = "main"
    /\ InitNoTools
    /\ is_tv_flag = FALSE
    /\ \E n \in 0..MaxFiles : data_files \in [1..n -> DataFiles]
    /\ test \in {"FullTest", "Contrast"}
    /\ device_groups = <<>>
    /\ current_group = 0
    /\ current_file = 0
    /\ device_reports_list = <<>>
    /\ step_log = {}
    /\ group_results = {}
    /\ removed_files = {}
    /\ exit_code = "running"
    /\ json_data = JsonNone
    /\ yaml_data = YamlNone
    /\ writable = TRUE
    /\ output_json_file = Unwritten
    /\ ret = "unset"
    /\ InitNoDeviceReports
    /\ InitNoUpload

NextMain ==
    \/ ListFiles
    \/ GroupFile
    \/ EndGrouping
    \/ ProcessFile
    \/ EndFiles
    \/ Aggregate
    \/ MinFailAudit
    \/ Compare
    \/ HtmlReport
    \/ Archive
    \/ CleanupAndNextGroup

SpecMain == InitMain /\ [][NextMain]_vars

----------------------------------------------------------------------------
(* create_manifest.py: the manifest tool *)

\* create_manifest.py 29
MAX_WORKERS == 20
MaxUploadFiles == 3

\* create_manifest.py 197, 242: files_to_upload, by position
FilesToUpload == 1..(IF args.mode = "zip" THEN 1 ELSE args.files)

\* an upload_file call that has started: the manifest or an application file
ManifestUpload == [kind |-> "manifest", file |-> 0]
FileUpload(file) == [kind |-> "file", file |-> file]

\* everything outside the manifest tool, but pc, ret and exit_code
uploadIdle ==
    <<is_tv_flag, json_data, yaml_data, writable, output_json_file, expected_values,
      device_reports, min_fail_file, full_report_file, data_files, test, device_groups,
      current_group, current_file, device_reports_list, step_log, group_results,
      removed_files, toolVars>>

\* create_manifest.py 362-373
CreateManifest ==
    /\ pc = "manifest"
    /\ IF args.source_found
         THEN pc' = "confirm" /\ exit_code' = exit_code
         ELSE pc' = "exited" /\ exit_code' = "1"
    /\ UNCHANGED <<ret, uploadVars, uploadIdle>>

ConfirmedUnlessNo(upload_now, given) == upload_now \/ given # "n"

\* create_manifest.py 376-385: upload_confirmed
Confirmed(upload_now, given) == upload_now \/ given = "y"

\* create_manifest.py 376-392
ConfirmUpload ==
    /\ pc = "confirm"
    /\ \E given \in IF args.upload_now THEN {"flag"}
                    ELSE {"y", "n", "", "KeyboardInterrupt"} :
         /\ answer' = given
         /\ IF given = "KeyboardInterrupt"
              THEN /\ upload_confirmed' = upload_confirmed
                   /\ pc' = "exited" /\ exit_code' = "1"
              ELSE /\ upload_confirmed' = Confirmed(args.upload_now, given)
                   /\ IF upload_confirmed'
                        THEN pc' = "connect" /\ exit_code' = exit_code
                        ELSE pc' = "exited" /\ exit_code' = "0"
    /\ UNCHANGED <<ret, args, connected, manifest_uploaded, upload_log, submitted,
                   futures, collected, failed_uploads, uploadIdle>>

\* create_manifest.py 396-410: get_nc_client and the fetch of the configured user
Connect ==
    /\ pc = "connect"
    /\ \E outcome \in {"ok", "ValueError", "NextcloudException", "Exception"} :
         /\ connected' = outcome
         /\ IF outcome = "ok"
              THEN pc' = "upload_manifest" /\ exit_code' = exit_code
              ELSE pc' = "exited" /\ exit_code' = "1"
    /\ UNCHANGED <<ret, args, answer, upload_confirmed, manifest_uploaded, upload_log,
                   submitted, futures, collected, failed_uploads, uploadIdle>>

AfterManifestIgnoringFailure(uploaded, mode, files) ==
    IF mode = "zip" THEN "upload_zip"
    ELSE IF files = 0 THEN "returned"
    ELSE "submit"

\* create_manifest.py 256-281: where upload_to_nextcloud goes after the
\* manifest upload
AfterManifest(uploaded, mode, files) ==
    IF ~uploaded THEN "returned"
    ELSE IF mode = "zip" THEN "upload_zip"
    ELSE IF files = 0 THEN "returned"
    ELSE "submit"

\* create_manifest.py 250-259, 277-286: upload_file for the manifest
UploadManifest ==
    /\ pc = "upload_manifest"
    /\ \E uploaded \in BOOLEAN :
         /\ upload_log' = Append(upload_log, ManifestUpload)
         /\ manifest_uploaded' = IF uploaded THEN "True" ELSE "False"
         /\ pc' = AfterManifest(uploaded, args.mode, args.files)
         /\ ret' = IF pc' # "returned" THEN ret
                   ELSE IF uploaded THEN "True" ELSE "False"
    /\ UNCHANGED <<exit_code, args, answer, upload_confirmed, connected, submitted,
                   futures, collected, failed_uploads, uploadIdle>>

\* create_manifest.py 265-275, 321-322: the one file of zip mode
UploadZip ==
    /\ pc = "upload_zip"
    /\ pc' = "returned"
    /\ IF FilesToUpload = {}
         THEN ret' = "False" /\ upload_log' = upload_log
         ELSE \E uploaded \in BOOLEAN :
                /\ upload_log' = Append(upload_log, FileUpload(1))
                /\ ret' = IF uploaded THEN "True" ELSE "False"
    /\ UNCHANGED <<exit_code, args, answer, upload_confirmed, connected,
                   manifest_uploaded, submitted, futures, collected, failed_uploads,
                   uploadIdle>>

\* create_manifest.py 292-298: one iteration of `for local_path in files_to_upload`
Submit ==
    /\ pc = "submit"
    /\ LET file == Len(submitted) + 1
       IN  /\ submitted' = Append(submitted, file)
           /\ futures' = Append(futures, "queued")
           /\ pc' = IF file = args.files THEN "collect" ELSE "submit"
    /\ UNCHANGED <<ret, exit_code, args, answer, upload_confirmed, connected,
                   manifest_uploaded, upload_log, collected, failed_uploads, uploadIdle>>

\* create_manifest.py 289, 297: a free worker of the pool takes a queued upload
WorkerStart ==
    /\ \E k \in DOMAIN futures :
         /\ futures[k] = "queued"
         /\ Cardinality({j \in DOMAIN futures : futures[j] = "running"}) < MAX_WORKERS
         /\ futures' = [futures EXCEPT ![k] = "running"]
         /\ upload_log' = Append(upload_log, FileUpload(submitted[k]))
    /\ UNCHANGED <<pc, ret, exit_code, args, answer, upload_confirmed, connected,
                   manifest_uploaded, submitted, collected, failed_uploads, uploadIdle>>

\* create_manifest.py 116-145, 297: upload_file returns True or False in its
\* worker, or the call raises
WorkerFinish ==
    /\ \E k \in DOMAIN futures, outcome \in {"true", "false", "raised"} :
         /\ futures[k] = "running"
         /\ futures' = [futures EXCEPT ![k] = outcome]
    /\ UNCHANGED <<pc, ret, exit_code, args, answer, upload_confirmed, connected,
                   manifest_uploaded, upload_log, submitted, collected, failed_uploads,
                   uploadIdle>>

FailedUploadReturnedFalse(outcome) == outcome = "false"

\* create_manifest.py 305-314: the future goes to failed_uploads
FailedUpload(outcome) == outcome \in {"false", "raised"}

\* create_manifest.py 301-314: as_completed yields a finished future
Collect ==
    /\ pc = "collect"
    /\ \E k \in DOMAIN futures \ collected :
         /\ futures[k] \in {"true", "false", "raised"}
         /\ collected' = collected \cup {k}
         /\ failed_uploads' =
              IF FailedUpload(futures[k]) THEN failed_uploads \cup {submitted[k]}
              ELSE failed_uploads
    /\ UNCHANGED <<pc, ret, exit_code, args, answer, upload_confirmed, connected,
                   manifest_uploaded, upload_log, submitted, futures, uploadIdle>>

\* create_manifest.py 301, 316-322: as_completed is exhausted, the pool is shut
\* down, the result is evaluated
EvaluateUploads ==
    /\ pc = "collect"
    /\ collected = DOMAIN futures
    /\ pc' = "returned"
    /\ ret' = IF failed_uploads # {} THEN "False" ELSE "True"
    /\ UNCHANGED <<exit_code, uploadVars, uploadIdle>>

\* create_manifest.py 422-427
ExitAfterUpload ==
    /\ pc = "returned"
    /\ pc' = "exited"
    /\ exit_code' = IF ret = "True" THEN "0" ELSE "1"
    /\ UNCHANGED <<ret, uploadVars, uploadIdle>>

InitUpload ==
    /\ pc = "manifest"
    /\ InitNoTools
    /\ ret = "unset"
    /\ exit_code = "running"
    /\ is_tv_flag = FALSE
    /\ InitNoComparison
    /\ writable = TRUE
    /\ InitNoDeviceReports
    /\ data_files = <<>>
    /\ test = "FullTest"
    /\ device_groups = <<>>
    /\ current_group = 0
    /\ current_file = 0
    /\ device_reports_list = <<>>
    /\ step_log = {}
    /\ group_results = {}
    /\ removed_files = {}
    /\ \E mode \in {"zip", "files"}, upload_now \in BOOLEAN, source_found \in BOOLEAN :
         \E files \in IF mode = "zip" THEN {1} ELSE 0..MaxUploadFiles :
           args = [mode |-> mode, upload_now |-> upload_now,
                   source_found |-> source_found, files |-> files]
    /\ answer = "unset"
    /\ upload_confirmed = FALSE
    /\ connected = "unset"
    /\ manifest_uploaded = "unset"
    /\ upload_log = <<>>
    /\ submitted = <<>>
    /\ futures = <<>>
    /\ collected = {}
    /\ failed_uploads = {}

NextUpload ==
    \/ CreateManifest
    \/ ConfirmUpload
    \/ Connect
    \/ UploadManifest
    \/ UploadZip
    \/ Submit
    \/ WorkerStart
    \/ WorkerFinish
    \/ Collect
    \/ EvaluateUploads
    \/ ExitAfterUpload

SpecUpload == InitUpload /\ [][NextUpload]_vars

----------------------------------------------------------------------------
(* Part 4: src/build_and_upload.py, build, package and upload               *)
(*                                                                          *)
(* main runs three stages: the PyInstaller build (run_command), the copy of *)
(* config/ into the built directory, and create_manifest.py (run_command).  *)
(* `stages` records every stage that was started, with its outcome and, for *)
(* a subprocess, its command line.                                          *)

\* the stages of main in the order of the source (lines 109, 118-132, 149)
StageOrder == <<"build", "copy", "manifest">>

\* build_and_upload.py 100-107: the PyInstaller command (its options are fixed)
BuildCommand(a) == <<"pyinstaller", a.path>>

\* build_and_upload.py 137-147: `--upload-now` is appended iff --upload was given
ManifestCommandAlwaysUploading(a) ==
    <<"create_manifest.py", a.mode, a.path, "--upload-now">>
ManifestCommand(a) ==
    <<"create_manifest.py", a.mode, a.path>>
        \o (IF a.upload THEN <<"--upload-now">> ELSE <<>>)

\* build_and_upload.py 19-36: subprocess.run(check=True) returns, raises
\* CalledProcessError (nonzero exit) or FileNotFoundError, both caught and
\* turned into False; any other OSError is not caught and ends the process
\* with a traceback, i.e. with exit code 1
RunOutcomes == {"ok", "CalledProcessError", "FileNotFoundError", "PermissionError"}
run_command(outcome) == outcome = "ok"

\* build_and_upload.py 118-132: config/ is missing, rmtree or copytree raises,
\* or the copy is made
CopyOutcomes == {"ok", "no_source_config", "rmtree_failed", "copytree_failed"}

Stage(stage, command, outcome) ==
    [stage |-> stage, command |-> command, outcome |-> outcome]

\* the state of parts 1 to 3, but pc, ret and exit_code
programsIdle ==
    <<is_tv_flag, json_data, yaml_data, writable, output_json_file, expected_values,
      device_reports, min_fail_file, full_report_file, data_files, test, device_groups,
      current_group, current_file, device_reports_list, step_log, group_results,
      removed_files, uploadVars>>

buildIdle == <<ret, programsIdle, htmlVars, archiveVars, call, mkdirVars>>

\* build_and_upload.py 86-97: no pyinstaller executable next to the interpreter
FindPyinstaller ==
    /\ pc = "find_pyinstaller"
    /\ \E found \in BOOLEAN :
         IF found THEN pc' = "build" /\ exit_code' = exit_code
                  ELSE pc' = "exited" /\ exit_code' = "1"
    /\ UNCHANGED <<buildVars, buildIdle>>

\* build_and_upload.py 100-113
BuildStage ==
    /\ pc = "build"
    /\ \E outcome \in RunOutcomes :
         /\ stages' = Append(stages, Stage("build", BuildCommand(build_args), outcome))
         /\ IF run_command(outcome)
              THEN pc' = "copy" /\ exit_code' = exit_code
              ELSE pc' = "exited" /\ exit_code' = "1"
    /\ UNCHANGED <<build_args, buildIdle>>

\* build_and_upload.py 116-132; rmtree runs only when the target exists
CopyConfigStage ==
    /\ pc = "copy"
    /\ \E outcome \in CopyOutcomes :
         /\ outcome = "rmtree_failed" => build_args.target_config_exists
         /\ stages' = Append(stages, Stage("copy", <<>>, outcome))
         /\ IF outcome = "ok"
              THEN pc' = "manifest" /\ exit_code' = exit_code
              ELSE pc' = "exited" /\ exit_code' = "1"
    /\ UNCHANGED <<build_args, buildIdle>>

\* build_and_upload.py 135-153; falling off the end of main is exit code 0
ManifestStage ==
    /\ pc = "manifest"
    /\ \E outcome \in RunOutcomes :
         /\ stages' = Append(stages,
                             Stage("manifest", ManifestCommand(build_args), outcome))
         /\ pc' = "exited"
         /\ exit_code' = IF run_command(outcome) THEN "0" ELSE "1"
    /\ UNCHANGED <<build_args, buildIdle>>

\* the command line: mode, path, --upload (product_id and version are passed
\* on unchanged like path), and whether the built directory already has config/
BuildPaths == {"dist/App", "build/dist/ReportGenerator"}

InitReportsIdle ==
    /\ InitNoComparison
    /\ writable = TRUE
    /\ InitNoDeviceReports

InitBuild ==
    /\ pc = "find_pyinstaller"
    /\ ret = "unset"
    /\ InitReportsIdle
    /\ InitNoMain
    /\ \E mode \in {"zip", "files"}, path \in BuildPaths, upload \in BOOLEAN,
          target_config_exists \in BOOLEAN :
         build_args = [mode |-> mode, path |-> path, upload |-> upload,
                       target_config_exists |-> target_config_exists]
    /\ stages = <<>>
    /\ InitNoHtml
    /\ InitNoArchive
    /\ InitNoCall
    /\ InitNoMkdir

NextBuild ==
    \/ FindPyinstaller
    \/ BuildStage
    \/ CopyConfigStage
    \/ ManifestStage

SpecBuild == InitBuild /\ [][NextBuild]_vars

----------------------------------------------------------------------------
(* Part 5: src/src/helpers.py, the HTML report and its helpers              *)

(* create_html_report (helpers.py 191-375).  Its inputs are abstracted to   *)
(* what each stage can meet:                                                *)
(*   input_file      the comparison report: "missing", "invalid_json",      *)
(*                   "unreadable" (open raises PermissionError),            *)
(*                   "not_a_mapping" (valid JSON, e.g. a list), "mapping"   *)
(*   min_fail_file   "missing", "invalid_json", "list"                      *)
(*   expected_yaml   "missing", "yaml_error", "empty" (safe_load gives      *)
(*                   None), "no_main_tests" (a mapping without the key),    *)
(*                   "mapping" (main_tests is a mapping)                    *)
(*   template        "load_error", "render_error", "ok"                     *)
(*   device_reports  "none", "well_formed", "null_date" (a report whose     *)
(*                   MeasurementDateTime is null)                           *)
(*   output_file     "ok", "open_fails", "write_fails"                      *)
(* calc.COLOR_STANDARDS (line 303) is taken to be defined as helpers.py     *)
(* expects.                                                                 *)

HtmlInputFiles == {"missing", "invalid_json", "unreadable", "not_a_mapping", "mapping"}
HtmlMinFailFiles == {"missing", "invalid_json", "list"}
HtmlExpectedYamls == {"missing", "yaml_error", "empty", "no_main_tests", "mapping"}
HtmlTemplates == {"load_error", "render_error", "ok"}
HtmlDeviceReports == {"none", "well_formed", "null_date"}
HtmlOutputFiles == {"ok", "open_fails", "write_fails"}

HtmlResult(returned, file) == [ret |-> returned, html_file |-> file]

\* helpers.py 223-228: only FileNotFoundError and JSONDecodeError are caught
LoadMainReport(in) ==
    CASE in.input_file \in {"missing", "invalid_json"} -> "False"
      [] in.input_file = "unreadable" -> "raised"
      [] OTHER -> "ok"

\* helpers.py 237-249: FileNotFoundError, YAMLError and KeyError are caught;
\* None["main_tests"] is a TypeError
LoadExpectedValues(in) ==
    CASE in.expected_yaml \in {"missing", "yaml_error", "no_main_tests"} -> "False"
      [] in.expected_yaml = "empty" -> "raised"
      [] OTHER -> "ok"

\* helpers.py 166-188, called at 252 outside any try: .items() of the data
collect_tolerance_legend(in) ==
    IF in.input_file = "not_a_mapping" THEN "raised" ELSE "ok"

\* helpers.py 332-336
LoadTemplate(in) == IF in.template = "load_error" THEN "False" ELSE "ok"

\* helpers.py 507-574, called at 341 outside any try: line 531 calls
\* .replace on the MeasurementDateTime the report holds
process_device_reports(in) ==
    IF in.device_reports = "null_date" THEN "raised" ELSE "ok"

\* helpers.py 367-375: render, open(output_file, "w"), write; all caught.
\* A failing write leaves the file that open created.
RenderAndSave(in) ==
    CASE in.template = "render_error" -> HtmlResult("False", "absent")
      [] in.output_file = "open_fails" -> HtmlResult("False", "absent")
      [] in.output_file = "write_fails" -> HtmlResult("False", "partial")
      [] OTHER -> HtmlResult("True", "written")

\* the stages of create_html_report in the order of the source; the first
\* one that does not give "ok" decides the result
HtmlStages(in) ==
    <<LoadMainReport(in), LoadExpectedValues(in), collect_tolerance_legend(in),
      LoadTemplate(in), process_device_reports(in)>>

RECURSIVE FirstFailure(_, _)
FirstFailure(outcomes, i) ==
    IF i > Len(outcomes) THEN "ok"
    ELSE IF outcomes[i] # "ok" THEN outcomes[i]
    ELSE FirstFailure(outcomes, i + 1)

HtmlOutcome(in) ==
    LET failure == FirstFailure(HtmlStages(in), 1)
    IN  IF failure = "ok" THEN RenderAndSave(in) ELSE HtmlResult(failure, "absent")

htmlIdle == <<exit_code, programsIdle, buildVars, archiveVars, call, mkdirVars>>

CreateHtmlReport ==
    /\ pc = "create_html_report"
    /\ pc' = "html_done"
    /\ ret' = HtmlOutcome(html_inputs).ret
    /\ html_file' = HtmlOutcome(html_inputs).html_file
    /\ UNCHANGED <<html_inputs, htmlIdle>>

InitHtml ==
    /\ pc = "create_html_report"
    /\ ret = "unset"
    /\ InitReportsIdle
    /\ InitNoMain
    /\ InitNoBuild
    /\ InitNoArchive
    /\ InitNoCall
    /\ InitNoMkdir
    /\ html_inputs \in [input_file : HtmlInputFiles, min_fail_file : HtmlMinFailFiles,
                        expected_yaml : HtmlExpectedYamls, template : HtmlTemplates,
                        device_reports : HtmlDeviceReports,
                        output_file : HtmlOutputFiles]
    /\ html_file = "absent"

NextHtml == CreateHtmlReport

SpecHtml == InitHtml /\ [][NextHtml]_vars

(* archive_specific_files (helpers.py 577-619).  A file of the list is      *)
(*   "missing"    it does not exist                                         *)
(*   "directory"  it exists but is no regular file                          *)
(*   "archive"    it is zip_path itself                                     *)
(*   "inside"     a regular file under base_folder                          *)
(*   "outside"    a regular file that relative_to(base_folder) rejects      *)
(* and an entry of the zip is [file, name]: the position of the file in the *)
(* list and "relative" or "flat" for the name it is stored under.           *)

ArchiveFileKinds == {"missing", "directory", "archive", "inside", "outside"}

\* the absent marker and the returned str(zip_path)
NoArchive == "None"
ZipPath == "zip_path"

\* helpers.py 587-606: the loop over files_to_archive from position i, with
\* the entries written and files_added so far; the fallback of 603-606
\* writes the file under its flat name and does not count it
RECURSIVE ArchiveLoop(_, _, _, _)
ArchiveLoop(files, i, entries, files_added) ==
    IF i > Len(files) THEN [entries |-> entries, files_added |-> files_added]
    ELSE CASE files[i] \in {"missing", "directory", "archive"} ->
                ArchiveLoop(files, i + 1, entries, files_added)
           [] files[i] = "inside" ->
                ArchiveLoop(files, i + 1,
                            Append(entries, [file |-> i, name |-> "relative"]),
                            files_added + 1)
           [] files[i] = "outside" ->
                ArchiveLoop(files, i + 1,
                            Append(entries, [file |-> i, name |-> "flat"]),
                            files_added)

\* helpers.py 608-615: with files_added = 0 the zip is unlinked
ArchiveResult(files) ==
    LET loop == ArchiveLoop(files, 1, <<>>, 0)
    IN  IF loop.files_added = 0
          THEN [ret |-> NoArchive,
                zip_file |-> [on_disk |-> FALSE, entries |-> <<>>]]
          ELSE [ret |-> ZipPath,
                zip_file |-> [on_disk |-> TRUE, entries |-> loop.entries]]

archiveIdle == <<exit_code, programsIdle, buildVars, htmlVars, call, mkdirVars>>

\* helpers.py 584-615, on a disk where the zip can be created and every
\* existing file can be read (the except at 617 is not taken);
\* ZipFile(zip_path, 'w') replaces a zip that was there
ArchiveSpecificFiles ==
    /\ pc = "archive_specific_files"
    /\ pc' = "archived"
    /\ ret' = ArchiveResult(files_to_archive).ret
    /\ zip_file' = ArchiveResult(files_to_archive).zip_file
    /\ UNCHANGED <<files_to_archive, archiveIdle>>

MaxArchiveFiles == 3

InitArchive ==
    /\ pc = "archive_specific_files"
    /\ ret = "unset"
    /\ InitReportsIdle
    /\ InitNoMain
    /\ InitNoBuild
    /\ InitNoHtml
    /\ InitNoCall
    /\ InitNoMkdir
    /\ \E n \in 0..MaxArchiveFiles : files_to_archive \in [1..n -> ArchiveFileKinds]
    /\ zip_file \in {[on_disk |-> FALSE, entries |-> <<>>],
                     [on_disk |-> TRUE, entries |-> <<>>]}

NextArchive == ArchiveSpecificFiles

SpecArchive == InitArchive /\ [][NextArchive]_vars

(* The pure helpers _get_cell_status and _should_display_metric             *)
(* (helpers.py 69-163) and calculate.brightness_uniformity                  *)
(* (calculate.py 91-103).  `call` holds the function and its arguments,     *)
(* `ret` gets its result.                                                   *)

\* the bounds of an expected entry are None, the string 'None' or 1..MaxBound
MaxBound == 3

\* the YAML string 'None'
StringNone == [t |-> "str_None", v |-> 0]

\* dict.get(key, default)
MapGet(map, key, default) == IF key \in DOMAIN map THEN map[key] ELSE default

\* helpers.py 51-60
JSON_TO_YAML_KEY_MAP ==
    ("BrightnessUniformity" :> "Brightness_uniformity")
    @@ ("CgByAreaRGB" :> "Cg_rgb_area") @@ ("CgByAreaNTSC" :> "Cg_ntsc_area")
    @@ ("CgRGB" :> "Cg_rgb") @@ ("CgNTSC" :> "Cg_ntsc") @@ ("DeltaE" :> "Delta_e")
    @@ ("Center_x" :> "White_x") @@ ("Center_y" :> "White_y")

\* helpers.py 63
DYNAMIC_VISIBILITY_KEYS == {"CgByAreaRGB", "CgByAreaNTSC", "CgRGB", "CgNTSC"}

\* helpers.py 66
LOWER_IS_BETTER_KEYS == {"DeltaE"}

\* the result None of _get_cell_status
NoStatus == "None"

\* expected = {}: every expected.get(...) gives None
EmptyExpected == [min |-> None, typ |-> None, max |-> None]

\* helpers.py 94-95
parse_val(v) == IF v = StringNone \/ IsNone(v) THEN None ELSE v

\* helpers.py 118-121
OutOfBoundsBelowMinOnly(value, min_val, max_val) ==
    ~IsNone(min_val) /\ value.v < min_val.v
OutOfBounds(value, min_val, max_val) ==
    \/ ~IsNone(min_val) /\ value.v < min_val.v
    \/ ~IsNone(max_val) /\ value.v > max_val.v

\* helpers.py 69-131
get_cell_status(key, value, expected, is_coordinate) ==
    IF IsNone(value) THEN NoStatus
    ELSE
      LET yaml_key == MapGet(JSON_TO_YAML_KEY_MAP, key, key)
          entry == MapGet(expected, yaml_key, EmptyExpected)
          min_val == parse_val(entry.min)
          max_val == parse_val(entry.max)
          typ_val == parse_val(entry.typ)
      IN  IF key \in LOWER_IS_BETTER_KEYS
            THEN IF ~IsNone(max_val) /\ value.v > max_val.v THEN "fail"
                 ELSE IF is_coordinate THEN NoStatus
                 ELSE IF ~IsNone(typ_val) /\ value.v > typ_val.v THEN "warning"
                 ELSE NoStatus
            ELSE IF OutOfBounds(value, min_val, max_val) THEN "fail"
                 ELSE IF is_coordinate THEN NoStatus
                 ELSE IF ~IsNone(typ_val) /\ value.v < typ_val.v THEN "warning"
                 ELSE NoStatus

\* helpers.py 159-161
is_valid_value(v) == ~IsNone(v) /\ v # StringNone

\* helpers.py 134-163; every key of DYNAMIC_VISIBILITY_KEYS is mapped, so the
\* `if not yaml_key` of 154 is never taken
should_display_metric(key, expected) ==
    IF key \notin DYNAMIC_VISIBILITY_KEYS THEN TRUE
    ELSE LET entry == MapGet(expected, JSON_TO_YAML_KEY_MAP[key], EmptyExpected)
         IN  \E k \in {"min", "typ", "max"} : is_valid_value(entry[k])

RECURSIVE GCD(_, _)
GCD(a, b) == IF b = 0 THEN a ELSE GCD(b, a % b)

\* the float n / d * 100 as a fraction in lowest terms (d > 0, n >= 0)
Percent(n, d) ==
    LET g == GCD(100 * n, d) IN [n |-> (100 * n) \div g, d |-> d \div g]
\* the float 0.0
ZeroPercent == [n |-> 0, d |-> 1]

\* calculate.py 91-103: min over uniformity_center_lv
brightness_uniformity(brightness_value) ==
    LET min_lv == brightness_value.min
        center_lv == brightness_value.uniformity_center_lv
    IN  IF IsNone(min_lv) \/ IsNone(center_lv) \/ center_lv.v = 0 THEN ZeroPercent
        ELSE Percent(min_lv.v, center_lv.v)

callIdle == <<exit_code, programsIdle, buildVars, htmlVars, archiveVars, mkdirVars>>

GetCellStatus ==
    /\ pc = "call" /\ call.fn = "_get_cell_status"
    /\ pc' = "returned"
    /\ ret' = get_cell_status(call.key, call.value, call.expected_values,
                              call.is_coordinate)
    /\ UNCHANGED <<call, callIdle>>

ShouldDisplayMetric ==
    /\ pc = "call" /\ call.fn = "_should_display_metric"
    /\ pc' = "returned"
    /\ ret' = should_display_metric(call.key, call.expected_values)
    /\ UNCHANGED <<call, callIdle>>

BrightnessUniformity ==
    /\ pc = "call" /\ call.fn = "brightness_uniformity"
    /\ pc' = "returned"
    /\ ret' = brightness_uniformity(call.brightness_value)
    /\ UNCHANGED <<call, callIdle>>

\* the bounds of one expected entry
BoundValues == {None, StringNone} \cup {Num(n) : n \in 1..MaxBound}
ExpectedEntries == [min : BoundValues, typ : BoundValues, max : BoundValues]

\* test_helpers.py 571-585: the main_tests keys of the DCI-P3 metrics
DCI_P3_YAML_KEYS ==
    ("CgByAreaDCI-P3" :> "Cg_dcip3_area") @@ ("CgDCI-P3" :> "Cg_dcip3")

\* the main_tests key that holds the bounds of a metric of Results
ExpectedYamlKey(key) ==
    MapGet(DCI_P3_YAML_KEYS, key, MapGet(JSON_TO_YAML_KEY_MAP, key, key))

\* main_tests without the metric, or with one entry for it
ExpectedFor(key) ==
    {<<>>} \cup {ExpectedYamlKey(key) :> entry : entry \in ExpectedEntries}

\* metrics of the device table and of the summary table
CellKeys == {"Brightness", "BrightnessUniformity", "Red_x", "Center_x", "DeltaE"}
DisplayKeys ==
    {"Brightness", "Contrast", "CgByAreaRGB", "CgByAreaNTSC", "CgRGB", "CgNTSC",
     "CgByAreaDCI-P3", "CgDCI-P3"}
CellValues == {None} \cup {Num(n) : n \in 0..(MaxBound + 1)}
LvValues == {None} \cup {Num(n) : n \in 0..MaxBound}

InitCellStatus ==
    \E key \in CellKeys, value \in CellValues, is_coordinate \in BOOLEAN :
      \E expected \in ExpectedFor(key) :
        call = [fn |-> "_get_cell_status", key |-> key, value |-> value,
                expected_values |-> expected, is_coordinate |-> is_coordinate]

InitDisplayMetric ==
    \E key \in DisplayKeys :
      \E expected \in ExpectedFor(key) :
        call = [fn |-> "_should_display_metric", key |-> key,
                expected_values |-> expected]

InitUniformity ==
    \E min_lv \in LvValues, max_lv \in LvValues, center_lv \in LvValues :
        /\ ~IsNone(min_lv) /\ ~IsNone(max_lv) => min_lv.v <= max_lv.v
        /\ ~IsNone(min_lv) /\ ~IsNone(center_lv) => min_lv.v <= center_lv.v
        /\ ~IsNone(max_lv) /\ ~IsNone(center_lv) => center_lv.v <= max_lv.v
        /\ call = [fn |-> "brightness_uniformity",
                   brightness_value |-> [min |-> min_lv, max |-> max_lv,
                                         uniformity_center_lv |-> center_lv]]

InitCall ==
    /\ pc = "call"
    /\ ret = "unset"
    /\ InitReportsIdle
    /\ InitNoMain
    /\ InitNoBuild
    /\ InitNoHtml
    /\ InitNoArchive
    /\ InitNoMkdir
    /\ InitCellStatus \/ InitDisplayMetric \/ InitUniformity

NextCall ==
    \/ GetCellStatus
    \/ ShouldDisplayMetric
    \/ BrightnessUniformity

SpecCall == InitCall /\ [][NextCall]_vars

----------------------------------------------------------------------------
(* Part 6: src/create_manifest.py, upload_file and ensure_parent_exists     *)
(*                                                                          *)
(* Each worker of the thread pool runs upload_file for one file.  A remote  *)
(* directory is a sequence of path parts.  The server creates a directory   *)
(* in two steps: while a MKCOL is in progress the directory is "creating"   *)
(* (locked), a second MKCOL for it is answered 423 and a MKCOL or PUT below *)
(* it is answered 409, as the comment at lines 101-103 describes.           *)

\* the workers that upload at the same time
MaxUploadWorkers == 2

\* upload_to_nextcloud 262, 294: the parents of two files of one build,
\* below the directory the manifest upload has already created
ParentPaths == {<<"SCT", "modules">>, <<"SCT", "modules", "lib">>}

\* Path(current_path) / part, lines 92-95: the first n parts
PathPrefix(parts, n) == SubSeq(parts, 1, n)

RemoteDirs ==
    UNION {{PathPrefix(parts, n) : n \in 1..Len(parts)} : parts \in ParentPaths}

\* the parent of a directory exists (a top-level directory has the root)
ParentExists(dirs, path) ==
    Len(path) = 1 \/ dirs[PathPrefix(path, Len(path) - 1)] = "exists"

\* the answers of nc.files.mkdir that do not create the directory at once
MkdirAnswers(dirs, path) ==
    IF dirs[path] = "exists" THEN {"already exists", "405"}
    ELSE IF dirs[path] = "creating" THEN {"423"}
    ELSE IF ~ParentExists(dirs, path) THEN {"409"}
    ELSE {"MKCOL", "500", "ConnectionError"}

\* create_manifest.py 104
BenignWithout423(response) == response \in {"already exists", "405", "409"}
Benign(response) == response \in {"already exists", "405", "409", "423"}

Request(path, response) == [path |-> path, answer |-> response]

Worker(parents) ==
    [parents |-> parents, at |-> 1, state |-> "walking", requests |-> <<>>,
     put |-> "none", parents_existed |-> FALSE, result |-> "unset"]

mkdirIdle == <<pc, ret, exit_code, programsIdle, buildVars, htmlVars, archiveVars, call>>

\* create_manifest.py 93-112: nc.files.mkdir for the next part of the path
Mkdir(w) ==
    LET worker == workers[w]
        path == PathPrefix(worker.parents, worker.at)
    IN  /\ worker.state = "walking"
        /\ worker.at <= Len(worker.parents)
        /\ \E response \in MkdirAnswers(server_dirs, path) :
             IF response = "MKCOL"
               THEN /\ server_dirs' = [server_dirs EXCEPT ![path] = "creating"]
                    /\ workers' = [workers EXCEPT ![w].state = "creating"]
               ELSE /\ server_dirs' = server_dirs
                    /\ workers' =
                         [workers EXCEPT
                            ![w].requests = Append(@, Request(path, response)),
                            ![w].at = IF Benign(response) THEN @ + 1 ELSE @,
                            ![w].state = IF Benign(response) THEN "walking" ELSE "done",
                            ![w].result = IF Benign(response) THEN @ ELSE "False"]
        /\ UNCHANGED mkdirIdle

\* the server finishes the MKCOL of worker w; mkdir returns (line 99)
MkdirReturns(w) ==
    LET worker == workers[w]
        path == PathPrefix(worker.parents, worker.at)
    IN  /\ worker.state = "creating"
        /\ server_dirs' = [server_dirs EXCEPT ![path] = "exists"]
        /\ workers' = [workers EXCEPT
                         ![w].requests = Append(@, Request(path, "created")),
                         ![w].at = @ + 1,
                         ![w].state = "walking"]
        /\ UNCHANGED mkdirIdle

\* create_manifest.py 128-145: after ensure_parent_exists returned True the
\* file is read and PUT; the PUT fails below a directory that does not exist
\* yet, and may fail for other reasons; every exception is caught
Put(w) ==
    LET worker == workers[w]
        parents_exist == server_dirs[worker.parents] = "exists"
    IN  /\ worker.state = "walking"
        /\ worker.at > Len(worker.parents)
        /\ \E uploaded \in IF parents_exist THEN BOOLEAN ELSE {FALSE} :
             workers' = [workers EXCEPT
                           ![w].state = "done",
                           ![w].put = IF uploaded THEN "ok" ELSE "failed",
                           ![w].parents_existed = parents_exist,
                           ![w].result = IF uploaded THEN "True" ELSE "False"]
        /\ UNCHANGED <<server_dirs, mkdirIdle>>

Walk == \E w \in DOMAIN workers : Mkdir(w)
ServerCreates == \E w \in DOMAIN workers : MkdirReturns(w)
PutFile == \E w \in DOMAIN workers : Put(w)

\* the manifest upload has created SCT; the modules directory of an earlier
\* version may exist
InitMkdir ==
    /\ pc = "upload_file"
    /\ ret = "unset"
    /\ InitReportsIdle
    /\ InitNoMain
    /\ InitNoBuild
    /\ InitNoHtml
    /\ InitNoArchive
    /\ InitNoCall
    /\ \E modules \in {"absent", "exists"} :
         server_dirs = [path \in RemoteDirs |->
                          IF path = <<"SCT">> THEN "exists"
                          ELSE IF path = <<"SCT", "modules">> THEN modules
                          ELSE "absent"]
    /\ \E n \in 1..MaxUploadWorkers :
         \E parents \in [1..n -> ParentPaths] :
           workers = [w \in 1..n |-> Worker(parents[w])]

NextMkdir ==
    \/ Walk
    \/ ServerCreates
    \/ PutFile

SpecMkdir == InitMkdir /\ [][NextMkdir]_vars

----------------------------------------------------------------------------
(* Claims about generate_comparison_report (specification Spec) *)

\* the per-metric report was written
ReportWritten == pc = "compared" /\ output_json_file.kind = "report"
ReportedKeys == DOMAIN output_json_file.report
StatusOf(k) == output_json_file.report[k].status

\* the expected bound `f` of key k ("min", "typ", "max"), None when absent
Expected(k) == yaml_data.main_tests[k]
\* the aggregated stat block of key k as the input file holds it
Aggregated(k) ==
    LET j == json_key_mapping(k)
    IN  IF ~json_data.results_is_dict THEN ActMissing
        ELSE IF k \in coordinate_yaml_keys
          THEN IF json_data.coords.kind = "dict" /\ j \in DOMAIN json_data.coords.items
                 THEN json_data.coords.items[j] ELSE ActMissing
          ELSE IF j \in DOMAIN json_data.top THEN json_data.top[j] ELSE ActMissing
AllNumeric(xs) == \A x \in xs : IsNumeric(x)

\* C1: for a key that is neither a coordinate nor Temperature, on a non-TV
\* device, the status is N/A if any of actual.avg, actual.min, expected.typ,
\* expected.min is absent or non-numeric, otherwise FAIL if actual.avg <
\* expected.typ, otherwise FAIL if actual.min < expected.min, otherwise PASS.
C1_GeneralPath ==
    (ReportWritten /\ ~is_tv_flag) =>
        \A k \in ReportedKeys \ (coordinate_yaml_keys \cup {"Temperature"}) :
            LET a == Aggregated(k)
                e == Expected(k)
            IN  StatusOf(k) =
                  IF ~AllNumeric({a.avg, a.min, e.typ, e.min}) THEN "N/A"
                  ELSE IF a.avg.v < e.typ.v THEN "FAIL"
                  ELSE IF a.min.v < e.min.v THEN "FAIL"
                  ELSE "PASS"

\* a non-TV general metric whose avg reaches typ and whose min is below the
\* expected min has been reported FAIL
C1_Witness ==
    /\ ReportWritten /\ ~is_tv_flag
    /\ \E k \in ReportedKeys \ (coordinate_yaml_keys \cup {"Temperature"}) :
          LET a == Aggregated(k)
              e == Expected(k)
          IN  /\ AllNumeric({a.avg, a.min, e.typ, e.min})
              /\ a.avg.v >= e.typ.v /\ a.min.v < e.min.v
              /\ StatusOf(k) = "FAIL"

\* C2: for a coordinate key the verdict is a function of actual.min,
\* actual.max, expected.min and expected.max alone: N/A if any of them is
\* absent or non-numeric, else FAIL if actual.min < expected.min, else FAIL if
\* actual.max > expected.max, else PASS, whatever actual.avg and expected.typ.
C2_CoordinatePath ==
    ReportWritten =>
        \A k \in ReportedKeys \cap coordinate_yaml_keys :
            LET a == Aggregated(k)
                e == Expected(k)
            IN  StatusOf(k) =
                  IF ~AllNumeric({a.min, a.max, e.min, e.max}) THEN "N/A"
                  ELSE IF a.min.v < e.min.v THEN "FAIL"
                  ELSE IF a.max.v > e.max.v THEN "FAIL"
                  ELSE "PASS"

\* a coordinate within its bounds whose avg is below typ has been reported PASS
C2_Witness ==
    /\ ReportWritten
    /\ \E k \in ReportedKeys \cap coordinate_yaml_keys :
          LET a == Aggregated(k)
              e == Expected(k)
          IN  /\ AllNumeric({a.min, a.max, e.min, e.max, a.avg, e.typ})
              /\ a.avg.v < e.typ.v
              /\ StatusOf(k) = "PASS"

\* C3: Temperature is never compared on avg against typ: with numeric
\* actual.min, actual.max, expected.min and expected.max the status is FAIL
\* when actual.min < expected.min or actual.max > expected.max and PASS
\* otherwise, also when actual.avg < expected.typ or expected.typ is absent.
C3_TemperatureIgnoresTyp ==
    ReportWritten =>
        \A k \in ReportedKeys \cap {"Temperature"} :
            LET a == Aggregated(k)
                e == Expected(k)
            IN  AllNumeric({a.avg, a.min, a.max, e.min, e.max}) =>
                  StatusOf(k) =
                    IF a.min.v < e.min.v \/ a.max.v > e.max.v THEN "FAIL" ELSE "PASS"

\* the 6.5% tolerance in thousandths: typ * (1 - 0.065) = typ * 935 / 1000
TolerancePermille == 935

\* C4: for a TV the avg check of Contrast uses typ reduced by 6.5%: with
\* actual.min >= expected.min the status is PASS iff actual.avg >= 0.935 *
\* expected.typ, and the entry records tolerance_applied; for a non-TV device
\* typ is used unadjusted.
C4_TvContrastTolerance ==
    ReportWritten =>
        \A k \in ReportedKeys \cap {"Contrast"} :
            LET a == Aggregated(k)
                e == Expected(k)
            IN  (AllNumeric({a.avg, a.min, e.typ, e.min}) /\ a.min.v >= e.min.v) =>
                  IF is_tv_flag
                    THEN /\ StatusOf(k) = "PASS" <=>
                              a.avg.v * 1000 >= e.typ.v * TolerancePermille
                         /\ "tolerance_applied" \in DOMAIN output_json_file.report[k]
                    ELSE StatusOf(k) = "PASS" <=> a.avg.v >= e.typ.v

\* tests/test_report.py 263-265: AVG_FAIL_SKIP_KEYS_FOR_TV without Temperature
TvAvgSkipKeys ==
    {"Brightness", "Brightness_uniformity", "Cg_rgb_area", "Cg_ntsc_area",
     "Cg_rgb", "Cg_ntsc"}

\* C5: for a TV, a key of the TV skip set bypasses the avg-versus-typ check:
\* PASS iff actual.min >= expected.min, FAIL iff actual.min < expected.min,
\* also when actual.avg < expected.typ.
C5_TvSkipsAvgCheck ==
    (ReportWritten /\ is_tv_flag) =>
        \A k \in ReportedKeys \cap TvAvgSkipKeys :
            LET a == Aggregated(k)
                e == Expected(k)
            IN  AllNumeric({a.avg, a.min, e.typ, e.min}) =>
                  StatusOf(k) = IF a.min.v >= e.min.v THEN "PASS" ELSE "FAIL"

\* C6: the written report has an entry for exactly the keys of main_tests,
\* whatever keys the aggregated results hold; an entry whose actual data is
\* absent has status N/A; every status is PASS, FAIL, N/A or ERROR.
C6_OneEntryPerSpecKey ==
    ReportWritten =>
        /\ ReportedKeys = DOMAIN yaml_data.main_tests
        /\ \A k \in ReportedKeys :
              /\ StatusOf(k) \in {"PASS", "FAIL", "N/A", "ERROR"}
              /\ Aggregated(k).kind = "missing" => StatusOf(k) = "N/A"

\* a report of two keys or more, one of them without actual data, one PASS,
\* written from results that hold a key outside the specification
C6_Witness ==
    /\ ReportWritten
    /\ ExtraResultKey \in DOMAIN json_data.top
    /\ \E k1, k2 \in ReportedKeys :
          /\ Aggregated(k1).kind = "missing" /\ StatusOf(k1) = "N/A"
          /\ StatusOf(k2) = "PASS"

\* C7: the operation returns true when the per-metric report was written and
\* false when an input file is missing or unparsable, and then the output
\* holds only an {error, details} record.
C7_ReturnsStatus ==
    pc = "compared" =>
        /\ output_json_file.kind = "report" => ret = "True"
        /\ (json_data.kind = "none" \/ yaml_data.kind = "none") =>
              /\ ret = "False"
              /\ output_json_file.kind # "report"
              /\ output_json_file.kind = "error" =>
                    output_json_file.keys = {"error", "details"}

----------------------------------------------------------------------------
(* Claims about analyze_json_files_for_min_fail (specification SpecMinFail) *)

AuditWritten == pc = "audited" /\ min_fail_file.written
SpecItems == expected_values.items

\* the scalar a report holds for a key, under the key's own name at the top
\* level of Results (or its "min") or inside Coordinates; None when it holds none
HeldValue(data, key) ==
    IF ~data.readable \/ ~data.has_results \/ data.Results.kind # "dict" THEN None
    ELSE LET top == data.Results.items
         IN  IF key \in DOMAIN top
               THEN IF top[key].kind = "scalar" THEN top[key].val
                    ELSE IF top[key].kind = "dict" /\ "min" \in DOMAIN top[key].items
                      THEN top[key].items["min"].val
                    ELSE None
             ELSE IF /\ key \in CoordinateKeys
                     /\ "Coordinates" \in DOMAIN top
                     /\ top["Coordinates"].kind = "dict"
                     /\ key \in DOMAIN top["Coordinates"].items
               THEN top["Coordinates"].items[key].val
             ELSE None

\* the value is numeric and strictly below the numeric minimum of the entry
StrictlyBelow(value, expected) ==
    /\ IsNumeric(value)
    /\ expected.kind = "dict"
    /\ IsNumeric(expected.min)
    /\ value.v < expected.min.v

\* the (report, key) pairs in report order and, within a report, key order
AuditPairs ==
    [n \in 1..(Len(device_reports) * Len(SpecItems)) |->
       <<((n - 1) \div Len(SpecItems)) + 1, ((n - 1) % Len(SpecItems)) + 1>>]
FailingPairs ==
    SelectSeq(AuditPairs,
              LAMBDA p : StrictlyBelow(HeldValue(device_reports[p[1]], SpecItems[p[2]].key),
                                       SpecItems[p[2]].expected))

\* C8: the output holds an entry for a (report, key) pair if and only if the
\* report holds a numeric value for the key that is strictly below the key's
\* expected min; there is one entry per such pair, and the entries stand in
\* report order and, within a report, in specification-key order.
C8_MinFailEntries ==
    AuditWritten =>
      min_fail_file.entries =
        [n \in DOMAIN FailingPairs |->
           LET data == device_reports[FailingPairs[n][1]]
               item == SpecItems[FailingPairs[n][2]]
           IN  [sn |-> data.SerialNumber, key |-> item.key,
                min_value |-> HeldValue(data, item.key).v,
                expected_min |-> item.expected.min.v]]

\* the metrics whose report key differs from the specification key
MappedKeys ==
    {"Brightness_uniformity", "Cg_rgb_area", "Cg_ntsc_area", "Cg_rgb", "Cg_ntsc",
     "Delta_e", "White_x", "White_y"}

\* the scalar a report holds for a metric, under the report's name for it
MetricValue(data, key) ==
    IF ~data.readable \/ ~data.has_results \/ data.Results.kind # "dict" THEN None
    ELSE LET top == data.Results.items
             name == json_key_mapping(key)
         IN  IF name \in CoordinateKeys
               THEN IF /\ "Coordinates" \in DOMAIN top
                       /\ top["Coordinates"].kind = "dict"
                       /\ name \in DOMAIN top["Coordinates"].items
                      THEN top["Coordinates"].items[name].val
                      ELSE None
             ELSE IF name \in DOMAIN top /\ top[name].kind = "scalar" THEN top[name].val
             ELSE None

\* C9: the audit covers the metrics whose report key differs from the
\* specification key: a report whose value for such a metric is below the
\* metric's expected min gets an entry for it.
C9_MappedMetricsAudited ==
    AuditWritten =>
      \A d \in DOMAIN device_reports, i \in DOMAIN SpecItems :
        (/\ SpecItems[i].key \in MappedKeys
         /\ StrictlyBelow(MetricValue(device_reports[d], SpecItems[i].key),
                          SpecItems[i].expected))
        => \E n \in DOMAIN min_fail_file.entries :
             /\ min_fail_file.entries[n].sn = device_reports[d].SerialNumber
             /\ min_fail_file.entries[n].key = SpecItems[i].key

----------------------------------------------------------------------------
(* Claims about calculate_full_report (specification SpecAgg) *)

AggWritten == pc = "aggregated" /\ full_report_file.written
\* the key paths of the aggregated inputs
AggPaths == {<<"Brightness">>, <<"Coordinates">>, <<"Coordinates", "Red_x">>, <<ExtraResultKey>>}
\* the reports that hold a value at the path, and those that hold a number
Holders(path) == {d \in DOMAIN device_reports : HasPath(device_reports[d], path)}
NumberHolders(path) ==
    {d \in Holders(path) :
       LET value == NodeAt(device_reports[d], path)
       IN  value.kind = "scalar" /\ IsNumeric(value.val)}
NumberOf(d, path) == NodeAt(device_reports[d], path).val.v
\* no report holds a list at the path
ScalarPath(path) ==
    \A d \in Holders(path) : NodeAt(device_reports[d], path).kind # "list"
RECURSIVE SumOfNumbers(_, _)
SumOfNumbers(ds, path) ==
    IF ds = {} THEN 0
    ELSE LET d == CHOOSE x \in ds : TRUE
         IN  NumberOf(d, path) + SumOfNumbers(ds \ {d}, path)

\* C10: for a scalar key path min and max are the smallest and the largest
\* number collected across the reports and avg is the sum of the numbers
\* divided by their count (values that are not numbers are neither counted
\* nor taken as zero); when no collected value is a number all three are absent.
C10_ScalarStatistics ==
    AggWritten =>
      \A path \in AggPaths :
        ScalarPath(path) =>
          LET numbers == NumberHolders(path)
              Results == full_report_file.Results
          IN  IF numbers # {}
                THEN /\ path \in DOMAIN Results
                     /\ Results[path].kind = "scalar"
                     /\ \E d \in numbers : Results[path].min = Num(NumberOf(d, path))
                     /\ \A d \in numbers : Results[path].min.v <= NumberOf(d, path)
                     /\ \E d \in numbers : Results[path].max = Num(NumberOf(d, path))
                     /\ \A d \in numbers : Results[path].max.v >= NumberOf(d, path)
                     /\ Results[path].avg.t = "mean"
                     /\ Results[path].avg.d > 0
                     /\ Results[path].avg.v * Cardinality(numbers)
                          = SumOfNumbers(numbers, path) * Results[path].avg.d
                ELSE path \in DOMAIN Results =>
                       /\ Results[path].kind = "scalar"
                       /\ Results[path].avg = NoMean
                       /\ IsNone(Results[path].min)
                       /\ IsNone(Results[path].max)

\* a scalar path for which one report holds a number and another report a
\* value that is not a number; the divisor of avg is the count of the numbers
C10_Witness ==
    /\ AggWritten
    /\ \E path \in AggPaths :
         /\ ScalarPath(path)
         /\ NumberHolders(path) # {}
         /\ Holders(path) \ NumberHolders(path) # {}
         /\ path \in DOMAIN full_report_file.Results
         /\ full_report_file.Results[path].avg.d = Cardinality(NumberHolders(path))

\* every value the reports hold at the path is null or an empty object
NullInEveryReport(path) ==
    /\ Holders(path) # {}
    /\ \A d \in Holders(path) :
         LET value == NodeAt(device_reports[d], path)
         IN  \/ value.kind = "scalar" /\ value.val.t \in {"none", "nan"}
             \/ value.kind = "dict" /\ DOMAIN value.items = {}

\* C11: a key path whose collected values are null or empty objects in every
\* report is omitted from Results: no block whose avg, min and max are all
\* absent is emitted, and a parent path holds only its child metric keys (no
\* statistics block of its own beside them).
C11_NoNullOnlyBlocks ==
    AggWritten =>
      LET Results == full_report_file.Results
      IN  /\ \A path \in AggPaths : NullInEveryReport(path) => path \notin DOMAIN Results
          /\ \A path \in DOMAIN Results :
               ~(/\ Results[path].kind = "scalar"
                 /\ Results[path].avg = NoMean
                 /\ IsNone(Results[path].min)
                 /\ IsNone(Results[path].max))
          /\ \A path \in DOMAIN Results :
               Len(path) = 2 => <<path[1]>> \notin DOMAIN Results

----------------------------------------------------------------------------
(* Claims about the orchestrator (specification SpecMain) *)

\* the place of a step in the sequence of a group
StepIndex(step) ==
    CASE step = "aggregate" -> 1
      [] step = "audit" -> 2
      [] step = "compare" -> 3
      [] step = "html" -> 4
      [] step = "archive" -> 5
      [] OTHER -> 6
ReportSteps == {"aggregate", "audit", "compare", "html"}
CurrentFileList == device_groups[current_group].file_list

\* C12: if aggregation, comparison, min-fail audit or HTML rendering reports
\* failure for a group, no later step of the group runs, and neither archiving
\* nor cleanup runs for it.
C12_FailedStepAbandonsGroup ==
    \A entry \in step_log :
      (entry.step \in ReportSteps /\ entry.outcome = "failed")
      => /\ \A later \in step_log : StepIndex(later.step) <= StepIndex(entry.step)
         /\ pc # "cleanup"

C14_CalculationFailureCaught ==
    ~(/\ pc = "exited"
      /\ exit_code = ExitTraceback
      /\ current_group \in DOMAIN device_groups
      /\ current_file \in DOMAIN CurrentFileList
      /\ step_log = {}
      /\ data_files[CurrentFileList[current_file]].content = "no_center_T")

\* C15: a file whose JSON get_device_info cannot load is in no device group.
C15_UnloadableFileNotGrouped ==
    \A g \in DOMAIN device_groups :
      \A n \in DOMAIN device_groups[g].file_list :
        data_files[device_groups[g].file_list[n]].info = "ok"

\* C16: if no file of a group gave a device report, none of aggregation,
\* min-fail audit, comparison, HTML rendering and archiving runs for the group.
C16_EmptyGroupSkipped ==
    (pc \in {"audit", "compare", "html", "archive", "cleanup"} \/ step_log # {})
    => device_reports_list # <<>>

ExitNoDataFound == "2"
FullyProcessed == \E result \in group_results : result.processed

\* C17: the run ends with exit code 2 when data/ holds no JSON file, when no
\* group is formed or when no group was fully processed, and with exit code 0
\* only if at least one group was fully processed.
C17_ExitCodes ==
    pc = "exited" =>
      /\ exit_code = ExitSuccess => FullyProcessed
      /\ ((\A n \in DOMAIN data_files : ~data_files[n].json) \/ device_groups = <<>>)
           => exit_code = ExitNoDataFound

----------------------------------------------------------------------------
(* Claims about the manifest tool (specification SpecUpload) *)

FileUploads == {n \in DOMAIN upload_log : upload_log[n].kind = "file"}
UploadReturned == pc \in {"returned", "exited"} /\ manifest_uploaded # "unset"

\* C18: the manifest is uploaded before any application file, and if the
\* manifest upload fails upload_to_nextcloud returns false without attempting
\* the upload of an application file.
C18_ManifestFirst ==
    /\ \A n \in FileUploads : \E m \in 1..(n - 1) : upload_log[m] = ManifestUpload
    /\ manifest_uploaded = "False" =>
         /\ FileUploads = {}
         /\ pc \in {"returned", "exited"}
         /\ ret = "False"

\* the manifest upload failed with application files waiting
C18_Witness ==
    /\ manifest_uploaded = "False"
    /\ pc = "returned"
    /\ args.files > 0
    /\ upload_log = <<ManifestUpload>>

Finished == {"true", "false", "raised"}

\* C19: in files mode, once the manifest is uploaded, every file of the upload
\* list is submitted exactly once whatever the other uploads give, the result
\* is evaluated only when every submitted upload has completed, and it is
\* false if and only if an upload returned false or raised.
C19_ParallelUploads ==
    (UploadReturned /\ args.mode = "files" /\ manifest_uploaded = "True") =>
      /\ \A file \in FilesToUpload :
           Cardinality({k \in DOMAIN submitted : submitted[k] = file}) = 1
      /\ \A k \in DOMAIN submitted : submitted[k] \in FilesToUpload
      /\ \A k \in DOMAIN futures : futures[k] \in Finished
      /\ ret = "False" <=> \E k \in DOMAIN futures : futures[k] \in {"false", "raised"}
      /\ ret \in {"True", "False"}

\* the result was evaluated after one upload raised and another succeeded
C19_Witness ==
    /\ pc = "returned"
    /\ args.mode = "files"
    /\ \E k \in DOMAIN futures : futures[k] = "raised"
    /\ \E k \in DOMAIN futures : futures[k] = "true"
    /\ \A k \in DOMAIN futures : futures[k] # "false"
    /\ ret = "False"

\* C20: no upload is attempted unless the upload was confirmed, by the flag
\* --upload-now or by the answer 'y', and the connectivity self-test passed; a
\* keyboard interrupt at the prompt or a failed self-test ends the process with
\* exit code 1 and nothing uploaded.
C20_NoUploadUnlessConfirmed ==
    /\ upload_log # <<>> =>
         /\ (args.upload_now /\ answer = "flag") \/ answer = "y"
         /\ connected = "ok"
    /\ (answer = "KeyboardInterrupt" \/ connected \notin {"unset", "ok"}) =>
         /\ pc = "exited"
         /\ exit_code = "1"
         /\ upload_log = <<>>

\* the prompt was answered 'y', the self-test passed and an upload started
C20_Witness ==
    /\ ~args.upload_now
    /\ answer = "y"
    /\ connected = "ok"
    /\ upload_log # <<>>

----------------------------------------------------------------------------
(* Claims about build_and_upload.py (specification SpecBuild) *)

\* C21: the stages run in the order build, config copy, manifest tool; a
\* stage that failed is the last one and the process has exited with code 1;
\* the manifest tool gets --upload-now iff --upload was given, and code 0 is
\* reached only after all three stages succeeded
C21_StagesInOrder ==
    /\ Len(stages) <= Len(StageOrder)
    /\ \A i \in 1..Len(stages) :
         /\ stages[i].stage = StageOrder[i]
         /\ i < Len(stages) => stages[i].outcome = "ok"
         /\ stages[i].outcome # "ok" => pc = "exited" /\ exit_code = "1"
         /\ stages[i].stage = "manifest" =>
              /\ ("--upload-now" \in {stages[i].command[j] :
                                        j \in 1..Len(stages[i].command)})
                   <=> build_args.upload
              /\ SubSeq(stages[i].command, 2, 3) = <<build_args.mode, build_args.path>>
    /\ exit_code = "0" =>
         /\ Len(stages) = Len(StageOrder)
         /\ \A i \in 1..Len(stages) : stages[i].outcome = "ok"

\* the manifest tool ran with --upload-now after both earlier stages
C21_Witness ==
    /\ build_args.upload
    /\ Len(stages) = 3
    /\ stages[3].outcome = "CalledProcessError"
    /\ exit_code = "1"

----------------------------------------------------------------------------
(* Claims about src/src/helpers.py *)

\* C22: create_html_report returns false and leaves no HTML file when the
\* comparison report or the expected YAML is missing or unparsable or the
\* template fails to load or render, and it never ends with an exception
C22_HtmlFailureReturnsFalse ==
    pc = "html_done" =>
        /\ ret # "raised"
        /\ (\/ html_inputs.input_file \in {"missing", "invalid_json"}
            \/ html_inputs.expected_yaml \in {"missing", "yaml_error"}
            \/ html_inputs.template \in {"load_error", "render_error"})
             => ret = "False" /\ html_file = "absent"

\* the positions of the list that hold an existing file to archive
ExistingFiles ==
    {i \in 1..Len(files_to_archive) : files_to_archive[i] \in {"inside", "outside"}}

\* C23: with no existing file in the list archive_specific_files leaves no
\* zip and returns the absent marker; with N existing files it returns the
\* zip path and the zip holds exactly N entries, each under its path relative
\* to base_folder
C23_ArchiveHoldsExistingFiles ==
    pc = "archived" =>
        IF ExistingFiles = {}
          THEN ~zip_file.on_disk /\ ret = NoArchive
          ELSE /\ ret = ZipPath
               /\ Len(zip_file.entries) = Cardinality(ExistingFiles)
               /\ \A i \in 1..Len(zip_file.entries) :
                    zip_file.entries[i].name = "relative"

\* the call of the named function has returned
Returned(fn) == pc = "returned" /\ call.fn = fn

\* a bound that is neither absent nor the string 'None'
Present(bound) == bound.t = "num"

\* the expected entry of the metric the call is about
CallEntry ==
    MapGet(call.expected_values, ExpectedYamlKey(call.key), EmptyExpected)

CellFails ==
    /\ Present(call.value)
    /\ \/ Present(CallEntry.min) /\ call.value.v < CallEntry.min.v
       \/ Present(CallEntry.max) /\ call.value.v > CallEntry.max.v
CellWarns ==
    /\ Present(call.value)
    /\ ~call.is_coordinate
    /\ Present(CallEntry.typ) /\ call.value.v < CallEntry.typ.v

ColourGamutMetrics ==
    {"CgByAreaRGB", "CgByAreaNTSC", "CgRGB", "CgNTSC", "CgByAreaDCI-P3", "CgDCI-P3"}

\* C25: _should_display_metric is true for a colour-gamut metric (DCI-P3
\* included) iff one of min, typ, max of its expected entry is neither absent
\* nor 'None', and true for every other metric
C25_DisplayMetric ==
    Returned("_should_display_metric") =>
        ret = IF call.key \in ColourGamutMetrics
                THEN \E k \in {"min", "typ", "max"} : Present(CallEntry[k])
                ELSE TRUE

\* C26: brightness_uniformity is min / max * 100 when min and max are present
\* and max is not 0, else 0.0; the Center luminance plays no part
C26_UniformityOverMax ==
    Returned("brightness_uniformity") =>
        LET b == call.brightness_value
        IN  ret = IF Present(b.min) /\ Present(b.max) /\ b.max.v # 0
                    THEN Percent(b.min.v, b.max.v)
                    ELSE ZeroPercent

----------------------------------------------------------------------------
(* Claims about upload_file and ensure_parent_exists (specification SpecMkdir) *)

\* C27: ensure_parent_exists asks for the parents from the root downward; an
\* answer 'already exists', 405, 409 or 423 counts as success and the walk
\* goes on with the next part; any other mkdir failure makes upload_file
\* return false without a PUT
C27_BenignMkdirAnswers ==
    \A w \in DOMAIN workers :
        LET worker == workers[w]
            asked == Len(worker.requests)
        IN  /\ \A i \in 1..asked :
                 /\ worker.requests[i].path = PathPrefix(worker.parents, i)
                 /\ worker.requests[i].answer
                      \in {"created", "already exists", "405", "409", "423"}
                      => worker.at > i
                 /\ worker.requests[i].answer
                      \notin {"created", "already exists", "405", "409", "423"}
                      => /\ i = asked
                         /\ worker.result = "False"
                         /\ worker.put = "none"
                         /\ worker.state = "done"
            /\ worker.put # "none" => asked = Len(worker.parents)

\* a worker was answered 423 for a directory another worker was creating,
\* went on, and later issued its PUT
C27_Witness ==
    \E w \in DOMAIN workers :
        /\ workers[w].put = "ok"
        /\ \E i \in 1..Len(workers[w].requests) :
             workers[w].requests[i].answer = "423"
        /\ \E v \in DOMAIN workers : workers[v].result = "False" /\ workers[v].put = "none"

\* C28: whenever a worker issues the PUT for its file every parent directory
\* of the file exists on the server
C28_ParentsExistAtPut ==
    \A w \in DOMAIN workers :
        workers[w].put # "none" => workers[w].parents_existed

----------------------------------------------------------------------------
(* Further claims about src/src/report.py *)

\* the specification keys whose expected min, typ, max and actual avg, min,
\* max are all numbers
FullyNumericKeys ==
    {k \in ReportedKeys :
        /\ Expected(k).kind = "dict"
        /\ Aggregated(k).kind = "dict"
        /\ AllNumeric({Expected(k).min, Expected(k).typ, Expected(k).max,
                       Aggregated(k).avg, Aggregated(k).min, Aggregated(k).max})}

\* C29: an entry whose actual avg, min, max and expected min, typ, max are
\* all numeric gets status PASS or FAIL, never ERROR, be it a coordinate,
\* Temperature or a general metric
C29_NumericNeverError ==
    ReportWritten =>
        \A k \in FullyNumericKeys : StatusOf(k) \in {"PASS", "FAIL"}

\* a coordinate, Temperature and a general metric, all fully numeric, have
\* been reported in one run with both verdicts present
C29_Witness ==
    /\ ReportWritten
    /\ FullyNumericKeys \cap coordinate_yaml_keys # {}
    /\ "Temperature" \in FullyNumericKeys
    /\ FullyNumericKeys \ (coordinate_yaml_keys \cup {"Temperature"}) # {}
    /\ \E k \in FullyNumericKeys : StatusOf(k) = "FAIL"
    /\ \E k \in FullyNumericKeys : StatusOf(k) = "PASS"

\* the output holds an entry for report d and specification item i
HasEntry(d, i) ==
    \E n \in DOMAIN min_fail_file.entries :
        /\ min_fail_file.entries[n].sn = device_reports[d].SerialNumber
        /\ min_fail_file.entries[n].key = SpecItems[i].key

\* the specification entry is a mapping without a min bound
NoMinBound(expected) == expected.kind = "dict" /\ expected.min = Absent

\* C30: a specification entry without a min bound, for which the device holds
\* a number, gives no entry itself and does not keep the later keys of the
\* same device from being audited: a later key whose value is below its
\* expected min still gets its entry
C30_MissingMinDoesNotBlock ==
    AuditWritten =>
      \A d \in DOMAIN device_reports, i \in DOMAIN SpecItems :
        (/\ NoMinBound(SpecItems[i].expected)
         /\ IsNumeric(HeldValue(device_reports[d], SpecItems[i].key)))
        => /\ \A e \in DOMAIN SpecItems :
                SpecItems[e].key = SpecItems[i].key /\ HasEntry(d, e) =>
                  \E c \in DOMAIN device_reports :
                      c # d /\ device_reports[c].SerialNumber
                                  = device_reports[d].SerialNumber
           /\ \A j \in DOMAIN SpecItems :
                (/\ j > i
                 /\ StrictlyBelow(HeldValue(device_reports[d], SpecItems[j].key),
                                  SpecItems[j].expected))
                => HasEntry(d, j)

====
